---- MODULE Spec2Model ----
(***************************************************************************)
(* A model of the GAIL slot-machine simulator (C++ sources).               *)
(*                                                                         *)
(*   PoolSpec     the work-stealing ThreadPool driven by                   *)
(*                TaskDistributor::ExecuteSessionTasks / WaitForCompletion *)
(*   ShutdownSpec the same pool with ThreadPool::Shutdown                  *)
(*   FairPoolSpec the pool's workers under a fair scheduler                *)
(*   SessionSpec  one worker running TaskDistributor::ExecuteSession:      *)
(*                instance pool, SessionController::RunSession, counters   *)
(*   PlayerSpec   the same with the player models RandomPlayer, V1Player   *)
(*   UnlimitedPlayerSpec  the same with the random player without limits   *)
(*   V1Spec       the MakeDecision calls of a V1Player                      *)
(*   BalanceSpec  BasePlayer construction and Reset (GenerateBalance)       *)
(*   EngineSpec   main and SimulationEngine::Run                            *)
(*   InstancePoolSpec  InstancePool::GetInstances / ReturnInstances        *)
(*   MachineSpec  one SlotMachine::Spin or PayTable::CalculatePaylineWin   *)
(*                                                                         *)
(* Amounts of money are integers (one unit = the smallest bet step); the   *)
(* float rounding of the C++ code is outside the model.  C++ containers    *)
(* are 0-based, TLA+ sequences 1-based: an index k of the code is k + 1    *)
(* here, and every such shift is written out where it happens.             *)
(***************************************************************************)
EXTENDS Integers, Sequences, FiniteSets, TLC

(***************************************************************************)
(* Bounds of the model.                                                    *)
(***************************************************************************)
NumWorkers == 2      \* thread_count_ of the pool
NumTasks   == 3      \* tasks handed to ExecuteSessionTasks
NumSessions == 2     \* sessions one worker runs one after the other
MaxHeld    == 4      \* instances callers of the InstancePool hold at a time
MaxSpins   == 3      \* SimulationConfig::max_spins_per_session
MaxDuration == 2     \* SimulationConfig::max_session_duration, in seconds
MaxFreeSpinsCount == 2   \* largest MachineConfig::free_spins_count

Workers == 0 .. (NumWorkers - 1)
Tasks   == 1 .. NumTasks
NoTask  == 0

VARIABLES
    \* ---- ThreadPool ----
    queues_,                     \* queues_[w]: the deque of worker w (front = head)
    active_threads_,             \* std::atomic<int>
    total_tasks_,                \* std::atomic<long long>
    wpc,                         \* wpc[w]: where worker w stands in WorkerThread
    wtask,                       \* wtask[w]: the closure worker w has dequeued
    attempts,                    \* attempts[w]: loop counter of StealTask (0 outside it)
    \* ---- TaskDistributor ----
    completed_sessions_atomic_,
    failed_sessions_atomic_,
    mpc,                         \* the submitting thread: "submit", "wait", "returned",
                                 \* "join", "down"
    nextTask,                    \* next task SubmitBatch pushes
    scan,                        \* queue index AllQueuesEmpty is looking at
    runs,                        \* runs[t]: how often closure t has been run
    records,                     \* records[t]: session records handed to the callback
    shutdown_,                   \* std::atomic<bool> of the ThreadPool
    sim_config,                  \* the SimulationConfig the tasks carry (task.sim_config)
    \* ---- thread_local TaskDistributor::instance_pool_ ----
    instance_pool_,              \* instance_pool_[w]: the stacks of worker w's InstancePool
    \* ---- SlotMachine ----
    config_,                     \* the MachineConfig of the machine
    positions,                   \* the reel positions the RNG drew for the last spin
    spin_result,                 \* the SpinResult of the last spin
    line,                        \* the payline symbols last evaluated
    line_win,                    \* ... and what CalculatePaylineWin returned for a bet of 1
    \* ---- one worker running TaskDistributor::ExecuteSession ----
    spc,                         \* "idle", "loop" (inside RunSession's while), "returned"
    session_no,                  \* sessions this worker has finished
    player_pools_,               \* instances pooled for the fingerprint
    machine_pools_,
    held_players,                \* instances GetInstances handed out, not yet given back
    held_machines,
    balance_,                    \* BasePlayer::balance_ of the session's player
    active_,                     \* BasePlayer::active_
    in_free_spins_,              \* SessionController members
    free_spins_remaining_,
    spin_history_,
    stats,                       \* the SessionStats RunSession builds
    decision,                    \* the PlayerDecision of the current iteration
    elapsed,                     \* whole seconds since session_start_time_
    raised,                      \* RunSession's catch clause has run
    \* ---- the player instance of the worker's fingerprint ----
    player_config_,              \* PlayerConfig: model_version and the model's settings
    consecutive_losses_,         \* RandomPlayer members
    session_spent_,
    is_first_bet_,               \* V1Player members
    first_bet_amount_,
    \* ---- the MakeDecision call a V1Player has just answered ----
    model_outputs,               \* what the three models returned in that call
    bet_source,                  \* where its bet came from: "first", "predicted",
                                 \* "random", "fallback" (catch clause); "none"
                                 \* outside such a call
    \* ---- main and SimulationEngine::Run ----
    run_env,                     \* what the run finds: files, weights, output directory
    engine,                      \* where the run stands and what it has done
    \* ---- ThreadPool::Submit / SubmitBatch called inside a task ----
    nested_args,                 \* nested_args[w]: the closures a Submit or SubmitBatch
                                 \* call made by the task on worker w has still to push
    nested_idx,                  \* nested_idx[w]: thread_idx of that SubmitBatch call
    \* ---- SimulationEngine::SaveResults and the DataWriter ----
    all_sessions,                \* the session records SaveResults has collected
    player_report,               \* the rows of reports/player_report.csv, by player id
    writer,                      \* the DataWriter: its two output settings, the owner
                                 \* of write_mutex_, spins_buffer_ and the lines of
                                 \* raw_spins.csv
    publisher,                   \* publisher[w]: where worker w stands in
                                 \* WriteRawSpins and how many spins it hands over
    \* ---- Logger ----
    logger,                      \* the members of the Logger singleton, the owner of
                                 \* its mutex_ and where the calling thread stands
    \* ---- one session run twice on one thread with the same seed ----
    replay                       \* the seed, the run in progress with the states of
                                 \* its generators, and the output of each run

poolVars == <<queues_, active_threads_, total_tasks_, wpc, wtask, attempts,
              completed_sessions_atomic_, failed_sessions_atomic_, mpc,
              nextTask, scan, runs, records>>

machVars == <<config_, positions, spin_result, line, line_win>>

sessVars == <<spc, session_no, player_pools_, machine_pools_, held_players,
              held_machines, balance_, active_,
              in_free_spins_, free_spins_remaining_, spin_history_, stats,
              decision, elapsed, raised>>

instVars == <<instance_pool_>>

downVars == <<shutdown_>>

simVars == <<sim_config>>

modelVars == <<model_outputs, bet_source>>

engineVars == <<run_env, engine>>

nestVars == <<nested_args, nested_idx>>

writerVars == <<all_sessions, player_report, writer, publisher>>

logVars == <<logger>>

replayVars == <<replay>>

playerVars == <<player_config_, consecutive_losses_, session_spent_, is_first_bet_,
                first_bet_amount_>>

vars == <<poolVars, machVars, sessVars, playerVars, instVars, downVars, simVars,
          modelVars, engineVars, nestVars, writerVars, logVars, replayVars>>

(***************************************************************************)
(* Slot machine: reels, pay table, spin.  A symbol is an integer.  A       *)
(* machine configuration (MachineConfig) is a record                       *)
(*   [free_spins_count, free_spins_multiplier, wild_symbols,               *)
(*    scatter_symbol, window_size, active_lines,                           *)
(*    reels      : reel-set name -> sequence of strips, in the order of    *)
(*                 the sorted reel names (ReelSet::ReelSet),               *)
(*    paylines   : sequence of sequences of 0-based grid indices,          *)
(*    pay_table  : symbol -> payout sequence (keyed by to_string(symbol)), *)
(*    bet_table  : the bet options of the player's currency].              *)
(* A grid is the flat std::vector<int>; cell k of the code is grid[k + 1]. *)
(***************************************************************************)
WILD_101 == 101      \* the literal PayTable compares with

Cell(grid, k) == grid[k + 1]

Min(a, b) == IF a < b THEN a ELSE b
Max(a, b) == IF a > b THEN a ELSE b

\* Reel::GetSymbolsAtPosition
GetSymbolsAtPosition(symbols_, position, count) ==
    [i \in 1 .. count |-> Cell(symbols_, (position + (i - 1)) % Len(symbols_))]

\* ReelSet::GenerateGrid, the positions being the draws of the RNG: the window
\* of reel 0, then the window of reel 1, ...
RECURSIVE AppendWindows(_, _, _, _)
AppendWindows(reels_, window_size_, pos, c) ==
    IF c > Len(reels_) THEN <<>>
    ELSE GetSymbolsAtPosition(reels_[c], pos[c], window_size_)
             \o AppendWindows(reels_, window_size_, pos, c + 1)

GenerateGrid(reels_, window_size_, pos) == AppendWindows(reels_, window_size_, pos, 1)

\* the draws uniform_int_distribution(0, GetLength() - 1) can make, reel by reel
Positions(reels_) ==
    LET longest == CHOOSE n \in {Len(reels_[c]) : c \in 1 .. Len(reels_)} :
                       \A c \in 1 .. Len(reels_) : Len(reels_[c]) <= n
    IN {pos \in [1 .. Len(reels_) -> 0 .. (longest - 1)] :
            \A c \in 1 .. Len(reels_) : pos[c] < Len(reels_[c])}

\* SlotMachine::CheckFreeSpinsTrigger
CheckFreeSpinsTrigger(grid, config) ==
    LET num_reels == Len(grid) \div config.window_size
        has_scatter(col) ==
            \E row \in 0 .. (config.window_size - 1) :
                Cell(grid, row * num_reels + col) = config.scatter_symbol
        scatter_columns == Cardinality({col \in 0 .. (num_reels - 1) : has_scatter(col)})
    IN scatter_columns >= 3

\* PayTable::GetPaylineSymbols
RECURSIVE GetPaylineSymbolsFrom(_, _, _)
GetPaylineSymbolsFrom(grid, payline, i) ==
    IF i > Len(payline) THEN <<>>
    ELSE (IF payline[i] >= 0 /\ payline[i] < Len(grid)
          THEN <<Cell(grid, payline[i])>> ELSE <<>>)
             \o GetPaylineSymbolsFrom(grid, payline, i + 1)

GetPaylineSymbols(grid, payline) == GetPaylineSymbolsFrom(grid, payline, 1)

\* PayTable::CountConsecutiveSymbols: the loop from i = 1 (here i = 2)
RECURSIVE CountLoop(_, _, _, _)
CountLoop(symbols, i, first_symbol, count) ==
    IF i > Len(symbols) THEN count
    ELSE LET current_symbol == symbols[i]
         IN IF current_symbol = first_symbol \/ current_symbol = WILD_101
            THEN CountLoop(symbols, i + 1, first_symbol, count + 1)
            ELSE IF first_symbol = WILD_101
                 THEN CountLoop(symbols, i + 1, current_symbol, count + 1)
                 ELSE count

CountConsecutiveSymbols(symbols) ==
    IF Len(symbols) = 0 THEN 0 ELSE CountLoop(symbols, 2, symbols[1], 1)

\* PayTable::CalculatePaylineWin, the base symbol it looks the payout up with
BaseSymbol(symbols) ==
    LET notWild == {i \in 1 .. Len(symbols) : symbols[i] # WILD_101}
    IN IF notWild = {} THEN symbols[1]
       ELSE symbols[CHOOSE i \in notWild : \A j \in notWild : i <= j]

\* PayTable::GetPayout
GetPayout(pay_table_, symbol, count) ==
    IF symbol \notin DOMAIN pay_table_ THEN 0
    ELSE LET payouts == pay_table_[symbol]
             index == count - 3
         IN IF index >= 0 /\ index < Len(payouts) THEN Cell(payouts, index) ELSE 0

\* PayTable::CalculatePaylineWin
CalculatePaylineWin(pay_table_, grid, payline, bet_amount) ==
    LET symbols == GetPaylineSymbols(grid, payline)
    IN IF Len(symbols) = 0 THEN 0
       ELSE LET consecutive_count == CountConsecutiveSymbols(symbols)
            IN IF consecutive_count < 3 THEN 0
               ELSE GetPayout(pay_table_, BaseSymbol(symbols), consecutive_count) * bet_amount

\* PayTable::CalculateTotalWin
RECURSIVE SumLines(_, _, _, _, _)
SumLines(pay_table_, paylines_, grid, bet_amount, n) ==
    IF n = 0 THEN 0
    ELSE SumLines(pay_table_, paylines_, grid, bet_amount, n - 1)
             + CalculatePaylineWin(pay_table_, grid, paylines_[n], bet_amount)

CalculateTotalWin(pay_table_, paylines_, grid, bet_amount, active_lines) ==
    SumLines(pay_table_, paylines_, grid, bet_amount, Min(active_lines, Len(paylines_)))

\* SlotMachine::Spin: the reel set it spins
ReelSetName(config, in_free_spins) ==
    IF in_free_spins /\ "bonus" \in DOMAIN config.reels THEN "bonus" ELSE "normal"

\* SlotMachine::GenerateSpinGrid throws std::runtime_error("Reel set not found")
SpinThrows(config, in_free_spins) ==
    ReelSetName(config, in_free_spins) \notin DOMAIN config.reels

\* SlotMachine::Spin on the grid the reels produced
\* Spin with the trigger test also made in free-spin mode
SpinOnGridRetriggers(config, grid, bet_amount, in_free_spins, free_spins_remaining) ==
    LET win == CalculateTotalWin(config.pay_table, config.paylines, grid,
                                 bet_amount, config.active_lines)
        trigger == CheckFreeSpinsTrigger(grid, config)
    IN IF ~in_free_spins
       THEN [grid |-> grid, bet_amount |-> bet_amount, in_free_spins |-> in_free_spins,
             win_amount |-> win, profit |-> win - bet_amount,
             trigger_free_spins |-> trigger,
             free_spins_remaining |-> IF trigger THEN config.free_spins_count ELSE 0,
             spin_number |-> 0]
       ELSE [grid |-> grid, bet_amount |-> bet_amount, in_free_spins |-> in_free_spins,
             win_amount |-> win * config.free_spins_multiplier,
             profit |-> win * config.free_spins_multiplier - bet_amount,
             trigger_free_spins |-> trigger,
             free_spins_remaining |-> Max(0, free_spins_remaining - 1),
             spin_number |-> 0]

SpinOnGrid(config, grid, bet_amount, in_free_spins, free_spins_remaining) ==
    LET win == CalculateTotalWin(config.pay_table, config.paylines, grid,
                                 bet_amount, config.active_lines)
        trigger == CheckFreeSpinsTrigger(grid, config)
    IN IF ~in_free_spins
       THEN [grid |-> grid, bet_amount |-> bet_amount, in_free_spins |-> in_free_spins,
             win_amount |-> win, profit |-> win - bet_amount,
             trigger_free_spins |-> trigger,
             free_spins_remaining |-> IF trigger THEN config.free_spins_count ELSE 0,
             spin_number |-> 0]
       ELSE [grid |-> grid, bet_amount |-> bet_amount, in_free_spins |-> in_free_spins,
             win_amount |-> win * config.free_spins_multiplier,
             profit |-> win * config.free_spins_multiplier - bet_amount,
             trigger_free_spins |-> FALSE,
             free_spins_remaining |-> Max(0, free_spins_remaining - 1),
             spin_number |-> 0]

Spin(config, pos, bet_amount, in_free_spins, free_spins_remaining) ==
    LET reel_set == config.reels[ReelSetName(config, in_free_spins)]
    IN SpinOnGrid(config, GenerateGrid(reel_set, config.window_size, pos),
                  bet_amount, in_free_spins, free_spins_remaining)

\* SpinResult(): the value-initialised record
NoSpinResult ==
    [grid |-> <<>>, bet_amount |-> 0, in_free_spins |-> FALSE, win_amount |-> 0,
     profit |-> 0, trigger_free_spins |-> FALSE, free_spins_remaining |-> 0,
     spin_number |-> 0]

(***************************************************************************)
(* The machines of the model.  Symbols: 1 and 2 are normal symbols, 7, 8   *)
(* and 101 can be configured as wild, 20 is the scatter.                   *)
(***************************************************************************)
MachineConfig(fsc, wilds, window, reels, paylines) ==
    [free_spins_count |-> fsc, free_spins_multiplier |-> 2,
     wild_symbols |-> wilds, scatter_symbol |-> 20, window_size |-> window,
     reels |-> reels, paylines |-> paylines, active_lines |-> Len(paylines),
     pay_table |-> (1 :> <<2, 3, 5>>) @@ (2 :> <<1, 2, 4>>),
     bet_table |-> <<1, 2>>]

\* 3 reels, 2 rows
Reels3x2 == [normal |-> << <<20, 1, 2>>, <<20, 1, 2>>, <<20, 1, 2>> >>]
Paylines3x2 == << <<0, 2, 4>>, <<1, 3, 5>> >>

\* 5 reels, 3 rows
Reels5x3 == [normal |-> << <<20, 1, 2, 1>>, <<20, 1, 2, 1>>, <<20, 1, 2, 1>>,
                           <<20, 1, 2, 1>>, <<20, 1, 2, 1>> >>]
Paylines5x3 == << <<0, 3, 6, 9, 12>>, <<1, 4, 7, 10, 13>> >>

\* 6 reels, 1 row: a payline longer than the payout rows of the pay table
Reels6x1 == [normal |-> << <<20, 1>>, <<20, 1>>, <<20, 1>>,
                           <<20, 1>>, <<20, 1>>, <<20, 1>> >>]
Paylines6x1 == << <<0, 1, 2, 3, 4, 5>> >>

WildSets == {{}, {101}, {7}, {7, 101}}

\* a pay table with payout rows for the wild symbols 7 and 101 (none for 8)
PayTableWithWildRows ==
    (1 :> <<2, 3, 5>>) @@ (2 :> <<1, 2, 4>>) @@ (7 :> <<4, 6, 8>>)
        @@ (101 :> <<10, 20, 30>>)

WildRowMachines ==
    {[MachineConfig(2, wilds, 2, Reels3x2, Paylines3x2)
         EXCEPT !.pay_table = PayTableWithWildRows] :
        wilds \in {{101}, {7, 101}, {7, 8}}}

MachineConfigs ==
    {MachineConfig(2, wilds, 2, Reels3x2, Paylines3x2) : wilds \in WildSets}
    \cup {MachineConfig(2, wilds, 3, Reels5x3, Paylines5x3) : wilds \in WildSets}
    \cup {MachineConfig(2, {101}, 1, Reels6x1, Paylines6x1)}
    \cup WildRowMachines

\* the symbols a payline of the machine can show
LineSymbols(config) == {1, 2, 7, 101} \cup config.wild_symbols

\* the machine of the executor's runs
NoMachine == MachineConfig(2, {101}, 2, Reels3x2, Paylines3x2)

(***************************************************************************)
(* WorkQueue<T>: every operation holds the queue's mutex, so each is one   *)
(* atomic step on the deque.  A Pop returns <<found, item, deque'>>.       *)
(***************************************************************************)
PushBack(deque, item) == Append(deque, item)

\* a PopBack that hands out the oldest item
PopBackTakesFront(deque) ==
    IF Len(deque) = 0
    THEN <<FALSE, NoTask, deque>>
    ELSE <<TRUE, deque[1], SubSeq(deque, 2, Len(deque))>>

PopBack(deque) ==
    IF Len(deque) = 0
    THEN <<FALSE, NoTask, deque>>
    ELSE <<TRUE, deque[Len(deque)], SubSeq(deque, 1, Len(deque) - 1)>>

PopFrontKeepsItem(deque) ==
    IF Len(deque) = 0
    THEN <<FALSE, NoTask, deque>>
    ELSE <<TRUE, deque[1], deque>>

PopFront(deque) ==
    IF Len(deque) = 0
    THEN <<FALSE, NoTask, deque>>
    ELSE <<TRUE, deque[1], SubSeq(deque, 2, Len(deque))>>

Empty(deque) == Len(deque) = 0

(***************************************************************************)
(* TaskDistributor::ExecuteSession as seen by the pool: the counter it     *)
(* bumps.  A null instance from the pool fails the task; an exception of   *)
(* the session loop is caught inside RunSession, so the session still      *)
(* counts as completed; a throwing callback lands in the catch clause.     *)
(***************************************************************************)
ExecuteSessionOutcome(instancesOk, callbackOk) ==
    IF ~instancesOk THEN "failed"
    ELSE IF ~callbackOk THEN "failed"
    ELSE "completed"

\* what ModelLoader::Predict gave back: the output vector, or an exception
ModelOutput(throws, values) == [throws |-> throws, values |-> values]

\* the outputs of the betting model, of the termination model (DQN) and of
\* the isolation forest in one MakeDecision call, and whether preparing the
\* models' input raised
ModelOutputs(prepare_throws, betting, dqn, isolation) ==
    [prepare_throws |-> prepare_throws, betting |-> betting, dqn |-> dqn,
     isolation |-> isolation]

NoOutputs ==
    ModelOutputs(FALSE, ModelOutput(FALSE, <<>>), ModelOutput(FALSE, <<>>),
                 ModelOutput(FALSE, <<>>))

\* Logger(): the default member initialisers; nobody holds mutex_, no call
\* is in progress and nothing has been written
NewLogger ==
    [pc |-> "constructed", mutex_ |-> "free", waiting |-> FALSE, raised |-> FALSE,
     file_open |-> FALSE, console_level_ |-> 1, file_level_ |-> 0,
     enable_console_ |-> TRUE, enable_file_ |-> FALSE,
     console_lines |-> 0, file_lines |-> 0]

\* DataWriter(config) after InitializeFiles: the raw spins file is open when
\* record_raw_spins is set and holds its header only; the buffers are empty
NewDataWriter(record_raw_spins, batch_write_size) ==
    [constructed |-> TRUE,
     record_raw_spins |-> record_raw_spins, batch_write_size |-> batch_write_size,
     write_mutex_ |-> -1, spins_buffer_ |-> <<>>,
     raw_spins_open |-> record_raw_spins, raw_spins_lines |-> 0]

\* no DataWriter has been built
NoDataWriter == [NewDataWriter(FALSE, 1) EXCEPT !.constructed = FALSE]

\* a worker that is not inside WriteRawSpins
NoPublisher == [pc |-> "idle", spins |-> 0]

\* what one run of a session puts out: a row per spin and the session record
NoOutput == [spins |-> <<>>, record |-> <<>>]

\* no run has been made: no seed chosen, nothing put out
NoReplay ==
    [pc |-> "idle", run |-> 1, seed |-> 0, machine_rng |-> 0, player_rng |-> 0,
     output |-> <<NoOutput, NoOutput>>]

PoolInit ==
    /\ queues_ = [w \in Workers |-> <<>>]
    /\ active_threads_ = 0
    /\ total_tasks_ = 0
    /\ wpc = [w \in Workers |-> "loop"]
    /\ shutdown_ = FALSE
    /\ wtask = [w \in Workers |-> NoTask]
    /\ attempts = [w \in Workers |-> 0]
    /\ completed_sessions_atomic_ = 0
    /\ failed_sessions_atomic_ = 0
    /\ mpc = "submit"
    /\ nextTask = 1
    /\ scan = 0
    /\ runs = [t \in Tasks |-> 0]
    /\ records = [t \in Tasks |-> 0]
    /\ instance_pool_ = [w \in Workers |-> [player |-> <<>>, machine |-> <<>>]]
    /\ model_outputs = NoOutputs
    /\ bet_source = "none"
    /\ nested_args = [w \in Workers |-> <<>>]
    /\ nested_idx = [w \in Workers |-> 0]
    /\ all_sessions = <<>>
    /\ player_report = <<>>
    /\ writer = NoDataWriter
    /\ publisher = [w \in Workers |-> NoPublisher]
    /\ logger = NewLogger
    /\ replay = NoReplay

MachineIdle ==
    /\ positions = <<>>
    /\ spin_result = NoSpinResult
    /\ line = <<>>
    /\ line_win = 0

\* SessionStats(): the record RunSession starts from.  rtp and
\* session_duration (a quotient of floats, a wall-clock reading) are left out.
NoStats ==
    [total_spins |-> 0, total_bet |-> 0, total_win |-> 0, total_profit |-> 0,
     initial_balance |-> 0, final_balance |-> 0, free_spins_triggered |-> 0,
     free_spins_played |-> 0, max_win |-> 0, max_loss_streak |-> 0]

\* PlayerDecision(bet, delay)
PlayerDecision(bet, delay) ==
    [bet_amount |-> bet, delay_time |-> delay, continue_playing |-> bet > 0]

\* the player whose decisions are left open: no model state
AnyPlayer == [model_version |-> "any", max_consecutive_losses |-> 0, session_budget |-> 0]

\* no run of the engine: the variables of main keep these values
EngineIdle ==
    /\ run_env = [config_file_exists |-> FALSE]
    /\ engine = [pc |-> "none"]

PlayerIdle ==
    /\ player_config_ = AnyPlayer
    /\ consecutive_losses_ = 0
    /\ session_spent_ = 0
    /\ is_first_bet_ = TRUE
    /\ first_bet_amount_ = 1

\* SimulationConfig: the two limits of a session
SimulationConfig(max_spins, max_duration) ==
    [max_spins_per_session |-> max_spins, max_session_duration |-> max_duration]

\* the limits of the runs in which the limits are not the subject
LargestLimits == sim_config = SimulationConfig(MaxSpins, MaxDuration)

\* no session is running: the members as the constructors leave them
SessionIdle ==
    /\ spc = "idle"
    /\ session_no = 0
    /\ player_pools_ = 0
    /\ machine_pools_ = 0
    /\ held_players = 0
    /\ held_machines = 0
    /\ balance_ = 0
    /\ active_ = TRUE
    /\ in_free_spins_ = FALSE
    /\ free_spins_remaining_ = 0
    /\ spin_history_ = <<>>
    /\ stats = NoStats
    /\ decision = PlayerDecision(0, 0)
    /\ elapsed = 0
    /\ raised = FALSE

(***************************************************************************)
(* ExecuteSessionTasks -> ThreadPool::SubmitBatch: one PushBack per task,  *)
(* round robin over the queues, while the workers are already running.     *)
(***************************************************************************)
SubmitBatch ==
    /\ mpc = "submit"
    /\ nextTask <= NumTasks
    /\ LET thread_idx == nextTask - 1
           target == thread_idx % NumWorkers
       IN queues_' = [queues_ EXCEPT ![target] = PushBack(@, nextTask)]
    /\ nextTask' = nextTask + 1
    /\ mpc' = IF nextTask = NumTasks THEN "wait" ELSE "submit"
    /\ UNCHANGED <<active_threads_, total_tasks_, wpc, wtask, attempts,
                   completed_sessions_atomic_, failed_sessions_atomic_,
                   scan, runs, records>>
    /\ UNCHANGED <<machVars, sessVars, playerVars, instVars, downVars, simVars,
                   modelVars, engineVars, nestVars, writerVars, logVars,
                   replayVars>>

(***************************************************************************)
(* ThreadPool::WaitForCompletion: while (!AllQueuesEmpty() ||              *)
(* active_threads_ > 0) sleep.  AllQueuesEmpty locks one queue at a time.  *)
(***************************************************************************)
AllQueuesEmptyStep ==
    /\ mpc = "wait"
    /\ scan < NumWorkers
    /\ scan' = IF Empty(queues_[scan]) THEN scan + 1 ELSE 0
    /\ UNCHANGED <<queues_, active_threads_, total_tasks_, wpc, wtask, attempts,
                   completed_sessions_atomic_, failed_sessions_atomic_, mpc,
                   nextTask, runs, records>>
    /\ UNCHANGED <<machVars, sessVars, playerVars, instVars, downVars, simVars,
                   modelVars, engineVars, nestVars, writerVars, logVars,
                   replayVars>>

WaitForCompletion ==
    /\ mpc = "wait"
    /\ scan = NumWorkers
    /\ IF active_threads_ > 0
       THEN /\ scan' = 0
            /\ mpc' = mpc
       ELSE /\ scan' = scan
            /\ mpc' = "returned"
    /\ UNCHANGED <<queues_, active_threads_, total_tasks_, wpc, wtask, attempts,
                   completed_sessions_atomic_, failed_sessions_atomic_,
                   nextTask, runs, records>>
    /\ UNCHANGED <<machVars, sessVars, playerVars, instVars, downVars, simVars,
                   modelVars, engineVars, nestVars, writerVars, logVars,
                   replayVars>>

(***************************************************************************)
(* ThreadPool::WorkerThread.  wpc: "loop" (at the test of                  *)
(* while (!shutdown_)), "top" (about to call ExecuteLocalTask), "steal"    *)
(* (inside the loop of StealTask), "inc" (holds a task, before             *)
(* active_threads_++), "run" (inside task()), "dec" (before                *)
(* active_threads_--), "wait" (in work_available_.wait_for), "exited"      *)
(* (the thread function has returned).                                     *)
(***************************************************************************)
\* a worker that does not look at the flag
WhileNotShutdownIgnoresFlag(w) ==
    /\ wpc[w] = "loop"
    /\ wpc' = [wpc EXCEPT ![w] = "top"]
    /\ UNCHANGED <<queues_, active_threads_, total_tasks_, wtask, attempts,
                   completed_sessions_atomic_, failed_sessions_atomic_, mpc,
                   nextTask, scan, runs, records>>
    /\ UNCHANGED <<machVars, sessVars, playerVars, instVars, downVars, simVars,
                   modelVars, engineVars, nestVars, writerVars, logVars,
                   replayVars>>

WhileNotShutdown(w) ==
    /\ wpc[w] = "loop"
    /\ wpc' = [wpc EXCEPT ![w] = IF shutdown_ THEN "exited" ELSE "top"]
    /\ UNCHANGED <<queues_, active_threads_, total_tasks_, wtask, attempts,
                   completed_sessions_atomic_, failed_sessions_atomic_, mpc,
                   nextTask, scan, runs, records>>
    /\ UNCHANGED <<machVars, sessVars, playerVars, instVars, downVars, simVars,
                   modelVars, engineVars, nestVars, writerVars, logVars,
                   replayVars>>

ExecuteLocalTask(w) ==
    /\ wpc[w] = "top"
    /\ LET r == PopBack(queues_[w])
       IN IF r[1]
          THEN /\ queues_' = [queues_ EXCEPT ![w] = r[3]]
               /\ wtask' = [wtask EXCEPT ![w] = r[2]]
               /\ wpc' = [wpc EXCEPT ![w] = "inc"]
               /\ attempts' = attempts
          ELSE /\ wpc' = [wpc EXCEPT ![w] =
                            IF 0 < NumWorkers - 1 THEN "steal" ELSE "wait"]
               /\ attempts' = [attempts EXCEPT ![w] = 0]
               /\ UNCHANGED <<queues_, wtask>>
    /\ UNCHANGED <<active_threads_, total_tasks_, completed_sessions_atomic_,
                   failed_sessions_atomic_, mpc, nextTask, scan, runs, records>>
    /\ UNCHANGED <<machVars, sessVars, playerVars, instVars, downVars, simVars,
                   modelVars, engineVars, nestVars, writerVars, logVars,
                   replayVars>>

StealTask(w) ==
    /\ wpc[w] = "steal"
    /\ attempts[w] < NumWorkers - 1
    /\ LET target == (w + 1 + attempts[w]) % NumWorkers
           r == PopFront(queues_[target])
       IN IF r[1]
          THEN /\ queues_' = [queues_ EXCEPT ![target] = r[3]]
               /\ wtask' = [wtask EXCEPT ![w] = r[2]]
               /\ wpc' = [wpc EXCEPT ![w] = "inc"]
               /\ attempts' = [attempts EXCEPT ![w] = 0]
          ELSE \* ++attempts; when the for loop ends StealTask returns false
               \* and the worker enters wait_for
               /\ IF attempts[w] + 1 < NumWorkers - 1
                  THEN /\ attempts' = [attempts EXCEPT ![w] = @ + 1]
                       /\ wpc' = wpc
                  ELSE /\ attempts' = [attempts EXCEPT ![w] = 0]
                       /\ wpc' = [wpc EXCEPT ![w] = "wait"]
               /\ UNCHANGED <<queues_, wtask>>
    /\ UNCHANGED <<active_threads_, total_tasks_, completed_sessions_atomic_,
                   failed_sessions_atomic_, mpc, nextTask, scan, runs, records>>
    /\ UNCHANGED <<machVars, sessVars, playerVars, instVars, downVars, simVars,
                   modelVars, engineVars, nestVars, writerVars, logVars,
                   replayVars>>

IncActive(w) ==
    /\ wpc[w] = "inc"
    /\ active_threads_' = active_threads_ + 1
    /\ wpc' = [wpc EXCEPT ![w] = "run"]
    /\ UNCHANGED <<queues_, total_tasks_, wtask, attempts,
                   completed_sessions_atomic_, failed_sessions_atomic_, mpc,
                   nextTask, scan, runs, records>>
    /\ UNCHANGED <<machVars, sessVars, playerVars, instVars, downVars, simVars,
                   modelVars, engineVars, nestVars, writerVars, logVars,
                   replayVars>>

MAX_POOL_SIZE == 3

\* a pop_back that does not look whether the stack is empty
PoolAfterGetUnguarded(size) == size - 1

\* InstancePool::GetInstances, one stack: pop_back if not empty
PoolAfterGet(size) == IF size > 0 THEN size - 1 ELSE size

\* InstancePool::ReturnInstances, one stack: emplace_back if the pointer is not
\* null and the stack holds fewer than MAX_POOL_SIZE, delete otherwise
PoolAfterReturnFull(size, instance) ==
    IF instance /\ size <= MAX_POOL_SIZE THEN size + 1 ELSE size

PoolAfterReturn(size, instance) ==
    IF instance /\ size < MAX_POOL_SIZE THEN size + 1 ELSE size

\* TaskDistributor::GetInstancePool on worker w: the pool of w's own thread
GetInstancePoolShared(w) == 0

GetInstancePool(w) == w

\* an instance is named by the worker whose thread built it; NoInstance is nullptr
NoInstance == -1

\* InstancePool::GetInstances, one stack: the instance handed out on worker w,
\* popped from the stack or built by the factory
Borrowed(stack, w, factoryOk) ==
    IF stack # <<>> THEN stack[Len(stack)]
    ELSE IF factoryOk THEN w
    ELSE NoInstance

\* ... and the stack it leaves
AfterBorrow(stack) ==
    IF PoolAfterGet(Len(stack)) < Len(stack) THEN SubSeq(stack, 1, Len(stack) - 1)
    ELSE stack

\* InstancePool::ReturnInstances, one stack
AfterReturn(stack, instance) ==
    IF PoolAfterReturn(Len(stack), instance # NoInstance) > Len(stack)
    THEN Append(stack, instance) ELSE stack

\* the closure of ExecuteSessionTasks: ExecuteSession(task, callback) on the
\* thread of worker w.  instancesOk: the factories know the task's player and
\* machine; a task they do not know has another fingerprint and leaves the
\* stacks of this one alone.
RunTask(w) ==
    /\ wpc[w] = "run"
    /\ \E instancesOk \in BOOLEAN, callbackOk \in BOOLEAN :
         LET t == wtask[w]
             p == GetInstancePool(w)
             pool == instance_pool_[p]
             player == Borrowed(pool.player, w, instancesOk)
             machine == Borrowed(pool.machine, w, instancesOk)
             outcome == ExecuteSessionOutcome(instancesOk, callbackOk)
         IN /\ runs' = [runs EXCEPT ![t] = @ + 1]
            /\ records' = [records EXCEPT ![t] = @ + (IF instancesOk THEN 1 ELSE 0)]
            /\ completed_sessions_atomic_' =
                   completed_sessions_atomic_ + (IF outcome = "completed" THEN 1 ELSE 0)
            /\ failed_sessions_atomic_' =
                   failed_sessions_atomic_ + (IF outcome = "failed" THEN 1 ELSE 0)
            /\ instance_pool_' =
                   IF instancesOk
                   THEN [instance_pool_ EXCEPT
                            ![p] = [player |-> AfterReturn(AfterBorrow(pool.player), player),
                                    machine |-> AfterReturn(AfterBorrow(pool.machine), machine)]]
                   ELSE instance_pool_
    /\ total_tasks_' = total_tasks_ + 1
    /\ wtask' = [wtask EXCEPT ![w] = NoTask]
    /\ wpc' = [wpc EXCEPT ![w] = "dec"]
    /\ UNCHANGED <<queues_, active_threads_, attempts, mpc, nextTask, scan>>
    /\ UNCHANGED <<machVars, sessVars, playerVars, downVars, simVars,
                   modelVars, engineVars, nestVars, writerVars, logVars,
                   replayVars>>

DecActive(w) ==
    /\ wpc[w] = "dec"
    /\ active_threads_' = active_threads_ - 1
    /\ wpc' = [wpc EXCEPT ![w] = "loop"]
    /\ UNCHANGED <<queues_, total_tasks_, wtask, attempts,
                   completed_sessions_atomic_, failed_sessions_atomic_, mpc,
                   nextTask, scan, runs, records>>
    /\ UNCHANGED <<machVars, sessVars, playerVars, instVars, downVars, simVars,
                   modelVars, engineVars, nestVars, writerVars, logVars,
                   replayVars>>

\* a wait without the 5 ms timeout whose notification was lost: the worker
\* sleeps until Shutdown broadcasts
WaitForWorkLostWakeup(w) ==
    /\ wpc[w] = "wait"
    /\ shutdown_
    /\ wpc' = [wpc EXCEPT ![w] = "exited"]
    /\ UNCHANGED <<queues_, active_threads_, total_tasks_, wtask, attempts,
                   completed_sessions_atomic_, failed_sessions_atomic_, mpc,
                   nextTask, scan, runs, records>>
    /\ UNCHANGED <<machVars, sessVars, playerVars, instVars, downVars, simVars,
                   modelVars, engineVars, nestVars, writerVars, logVars,
                   replayVars>>

WaitForWork(w) ==
    /\ wpc[w] = "wait"
    /\ wpc' = [wpc EXCEPT ![w] = IF shutdown_ THEN "exited" ELSE "top"]
    /\ UNCHANGED <<queues_, active_threads_, total_tasks_, wtask, attempts,
                   completed_sessions_atomic_, failed_sessions_atomic_, mpc,
                   nextTask, scan, runs, records>>
    /\ UNCHANGED <<machVars, sessVars, playerVars, instVars, downVars, simVars,
                   modelVars, engineVars, nestVars, writerVars, logVars,
                   replayVars>>

WorkerThread(w) ==
    \/ WhileNotShutdown(w)
    \/ ExecuteLocalTask(w)
    \/ StealTask(w)
    \/ IncActive(w)
    \/ RunTask(w)
    \/ DecActive(w)
    \/ WaitForWork(w)

PoolNext ==
    \/ SubmitBatch
    \/ AllQueuesEmptyStep
    \/ WaitForCompletion
    \/ \E w \in Workers : WorkerThread(w)

PoolSpecInit ==
    /\ PoolInit
    /\ EngineIdle
    /\ LargestLimits
    /\ config_ = NoMachine
    /\ MachineIdle
    /\ SessionIdle
    /\ PlayerIdle

PoolSpec == PoolSpecInit /\ [][PoolNext]_vars

(***************************************************************************)
(* Claims about the executor (checked under PoolSpec).                     *)
(***************************************************************************)
Occurrences(deque, t) == Cardinality({i \in 1 .. Len(deque) : deque[i] = t})

Queued(t) ==
    LET RECURSIVE Sum(_)
        Sum(k) == IF k = NumWorkers THEN 0
                  ELSE Occurrences(queues_[k], t) + Sum(k + 1)
    IN Sum(0)

Holders(t) == Cardinality({w \in Workers : wtask[w] = t})

\* C1: once TaskDistributor::WaitForCompletion has returned, every one of the
\* N submitted tasks has been counted exactly once:
\* completed_sessions + failed_sessions = N.
C1_AllTasksCounted ==
    mpc = "returned" =>
        completed_sessions_atomic_ + failed_sessions_atomic_ = NumTasks

\* C2: ThreadPool::WaitForCompletion returns only when every deque is empty,
\* no worker is active and no worker holds a dequeued task it has yet to run.
C2_ReturnsOnlyWhenQuiescent ==
    mpc = "returned" =>
        /\ \A w \in Workers : Empty(queues_[w])
        /\ active_threads_ = 0
        /\ \A w \in Workers : wtask[w] = NoTask

\* C3: every closure pushed onto a deque is, at any moment, in exactly one
\* place (one slot of one deque, or the hands of one worker, or run once):
\* PopBack and PopFront never duplicate and never lose a task, and a task
\* yields at most one session record.
C3_EachTaskExactlyOnce ==
    \A t \in Tasks :
        /\ Queued(t) + Holders(t) + runs[t] = (IF t < nextTask THEN 1 ELSE 0)
        /\ records[t] <= runs[t]
        /\ records[t] <= 1

\* C3 witness: a thief holds a task it took from another worker's deque while
\* that deque's owner holds a task of its own.
C3_StealBesideOwner ==
    \E thief \in Workers, owner \in Workers :
        /\ thief # owner
        /\ wtask[thief] # NoTask
        /\ (wtask[thief] - 1) % NumWorkers = owner
        /\ wtask[owner] # NoTask
        /\ (wtask[owner] - 1) % NumWorkers = owner

\* every instance on the stacks of worker w was built on worker w
OwnInstancesOnly(pools, w) ==
    /\ \A i \in 1 .. Len(pools[w].player) : pools[w].player[i] = w
    /\ \A i \in 1 .. Len(pools[w].machine) : pools[w].machine[i] = w

\* C14: instance pools are per worker: the stacks of worker w hold only
\* instances built on w, and a session run by w (its own task or a stolen
\* one) takes its instances from w's stacks or builds them, gives them back to
\* w's stacks and touches no other worker's stacks.
C14_PoolsPerWorker ==
    [][\A w \in Workers :
          /\ OwnInstancesOnly(instance_pool_', w)
          /\ (wpc[w] = "run" /\ wpc'[w] = "dec" /\ records' # records) =>
                 /\ instance_pool_'[w].player # <<>>
                 /\ instance_pool_'[w].machine # <<>>
                 /\ \A v \in Workers \ {w} : instance_pool_'[v] = instance_pool_[v]]_vars

\* a worker pooled instances after a session although none of the tasks
\* submitted to its own deque has run: the session was a stolen task
C14_StolenTaskUsedThiefPool ==
    \E w \in Workers :
        /\ instance_pool_[w].player # <<>>
        /\ \A t \in Tasks : ((t - 1) % NumWorkers = w) => runs[t] = 0

\* session records the callback has been called with, over all tasks
PublishedRecords ==
    LET RECURSIVE Sum(_)
        Sum(t) == IF t > NumTasks THEN 0 ELSE records[t] + Sum(t + 1)
    IN Sum(1)

\* C18: at the end of a run (WaitForCompletion has returned and every task
\* has run) the number of session records handed to the sink equals
\* completed_sessions: none for a session counted as failed, one for each
\* session counted as completed.
C18_RecordsEqualCompleted ==
    (mpc = "returned" /\ \A t \in Tasks : runs[t] = 1) =>
        PublishedRecords = completed_sessions_atomic_

\* the victims StealTask of worker w has looked at after n rounds of its loop
StealVictims(w, n) == {(w + 1 + a) % NumWorkers : a \in 0 .. (n - 1)}

\* C33: a worker runs the most recently pushed task of its own deque (pop
\* from the back); it takes a task from another worker only after it found
\* its own deque empty, and then the oldest task (front) of the victim's
\* deque; before it gives up it has looked at every other worker's deque, and
\* its own deque is never a victim.
C33_OwnNewestElseVictimsOldest ==
    [][\A w \in Workers :
          \* a worker gets hold of a task in ExecuteLocalTask or StealTask only
          /\ (wtask'[w] # wtask[w] /\ wtask'[w] # NoTask) =>
                 /\ wpc[w] \in {"top", "steal"}
                 /\ wpc'[w] = "inc"
          /\ (wpc[w] = "top" /\ wpc'[w] = "inc") =>
                 /\ queues_[w] # <<>>
                 /\ wtask'[w] = queues_[w][Len(queues_[w])]
                 /\ queues_' = [queues_ EXCEPT ![w] = SubSeq(@, 1, Len(@) - 1)]
          /\ (wpc[w] = "top" /\ wpc'[w] \in {"steal", "wait"}) =>
                 /\ queues_[w] = <<>>
                 /\ queues_' = queues_
          /\ (wpc[w] = "steal" /\ wpc'[w] = "inc") =>
                 \E victim \in Workers \ {w} :
                     /\ queues_[victim] # <<>>
                     /\ wtask'[w] = Head(queues_[victim])
                     /\ queues_' = [queues_ EXCEPT ![victim] = Tail(@)]
          /\ (wpc[w] = "steal" /\ wpc'[w] = "wait") =>
                 StealVictims(w, attempts[w] + 1) = Workers \ {w}
          /\ wpc'[w] = "steal" => w \notin StealVictims(w, attempts'[w] + 1)]_vars

\* a thief holds the oldest task of another worker's deque, whose newer
\* tasks are still queued there
C33_StoleOldestOfVictim ==
    \E thief \in Workers, victim \in Workers :
        /\ victim # thief
        /\ wpc[thief] = "inc"
        /\ wtask[thief] # NoTask
        /\ (wtask[thief] - 1) % NumWorkers = victim
        /\ queues_[victim] # <<>>
        /\ \A i \in 1 .. Len(queues_[victim]) : queues_[victim][i] > wtask[thief]

(***************************************************************************)
(* The pool under fair scheduling: a worker thread that can take a step    *)
(* eventually takes one.  Every step of WorkerThread returns by itself     *)
(* (try_lock-free deque operations under a mutex held for one operation,   *)
(* a task that returns or throws, wait_for with a 5 ms timeout), so weak   *)
(* fairness of each worker is what the operating system's scheduler gives. *)
(* Nothing is assumed of the submitting thread, which pushes its tasks     *)
(* with Submit (one task, any deque) or SubmitBatch (round robin).         *)
(***************************************************************************)
Submit ==
    /\ mpc = "submit"
    /\ nextTask <= NumTasks
    /\ ~shutdown_
    /\ \E target \in Workers :    \* GetTargetThread: dist(rng_) off the workers
           queues_' = [queues_ EXCEPT ![target] = PushBack(@, nextTask)]
    /\ nextTask' = nextTask + 1
    /\ mpc' = IF nextTask = NumTasks THEN "wait" ELSE "submit"
    /\ UNCHANGED <<active_threads_, total_tasks_, wpc, wtask, attempts,
                   completed_sessions_atomic_, failed_sessions_atomic_,
                   scan, runs, records>>
    /\ UNCHANGED <<machVars, sessVars, playerVars, instVars, downVars, simVars,
                   modelVars, engineVars, nestVars, writerVars, logVars,
                   replayVars>>

FairPoolNext ==
    \/ Submit
    \/ SubmitBatch
    \/ \E w \in Workers : WorkerThread(w)

FairPoolSpec ==
    PoolSpecInit /\ [][FairPoolNext]_vars /\ \A w \in Workers : WF_vars(WorkerThread(w))

\* C17: without shutdown every submitted task is eventually executed by some
\* worker under fair scheduling, whatever the workers were doing when it was
\* pushed: again and again every task pushed so far has been run (runs and
\* nextTask only grow, so this is "each pushed task is eventually run").
C17_QueuedTaskEventuallyRuns ==
    []<>(\A t \in Tasks : t < nextTask => runs[t] = 1)

\* a task sits in the deque of a worker that is busy with another task while
\* no worker waits on the condition variable: the notification reached nobody
C17_NotifiedNobody ==
    \E t \in Tasks, w \in Workers :
        /\ Occurrences(queues_[w], t) = 1
        /\ wpc[w] = "run"
        /\ \A v \in Workers : wpc[v] # "wait"

(***************************************************************************)
(* ThreadPool::Shutdown, called by ~ThreadPool: set shutdown_, notify_all, *)
(* join every worker.  The thread that owns the pool calls it between two  *)
(* of its other calls: before SubmitBatch, after SubmitBatch, or after     *)
(* WaitForCompletion.  mpc: "join" (flag set, inside the join loop),       *)
(* "down" (Shutdown has returned).                                         *)
(***************************************************************************)
Shutdown ==
    /\ \/ mpc = "submit" /\ nextTask = 1
       \/ mpc = "wait" /\ scan = 0
       \/ mpc = "returned"
    /\ ~shutdown_
    /\ shutdown_' = TRUE
    /\ mpc' = "join"
    /\ UNCHANGED <<queues_, active_threads_, total_tasks_, wpc, wtask, attempts,
                   completed_sessions_atomic_, failed_sessions_atomic_,
                   nextTask, scan, runs, records>>
    /\ UNCHANGED <<machVars, sessVars, playerVars, instVars, simVars,
                   modelVars, engineVars, nestVars, writerVars, logVars,
                   replayVars>>

JoinWorkers ==
    /\ mpc = "join"
    /\ \A w \in Workers : wpc[w] = "exited"
    /\ mpc' = "down"
    /\ UNCHANGED <<queues_, active_threads_, total_tasks_, wpc, wtask, attempts,
                   completed_sessions_atomic_, failed_sessions_atomic_,
                   nextTask, scan, runs, records>>
    /\ UNCHANGED <<machVars, sessVars, playerVars, instVars, downVars, simVars,
                   modelVars, engineVars, nestVars, writerVars, logVars,
                   replayVars>>

ShutdownNext ==
    \/ PoolNext
    \/ Shutdown
    \/ JoinWorkers

ShutdownSpec == PoolSpecInit /\ [][ShutdownNext]_vars

\* C15: on Shutdown the workers drain their deques before exiting: when
\* Shutdown has returned no task is left in a deque (a task left there was
\* queued when the flag was set, nothing is submitted after it).
C15_DequesDrainedAtShutdown ==
    mpc = "down" => \A t \in Tasks : Queued(t) = 0

\* C16 as stated: after the flag is set no worker dequeues a task, and
\* Shutdown returns only when no worker holds a task.
C16_NoDequeueAfterFlag ==
    [][/\ shutdown_ => \A w \in Workers : wtask'[w] \in {wtask[w], NoTask}
       /\ mpc' = "down" => \A w \in Workers : wtask'[w] = NoTask]_vars

\* C16: after the flag is set no worker starts another iteration of its
\* loop: a worker at the loop test or in wait_for exits, so a dequeue after
\* the flag belongs to the iteration the worker had entered before; and
\* Shutdown returns only when every worker has exited, no worker holds a
\* task, and every task taken out of a deque has run to completion.
C16_NoNewIterationAfterFlag ==
    [][/\ \A w \in Workers :
            (shutdown_ /\ wpc[w] \in {"loop", "wait"}) =>
                wpc'[w] \in {wpc[w], "exited"}
       /\ mpc' = "down" =>
            /\ \A w \in Workers : wpc'[w] = "exited" /\ wtask'[w] = NoTask
            /\ active_threads_' = 0
            /\ \A t \in Tasks :
                   (t < nextTask' /\ Queued(t)' = 0) => runs'[t] = 1]_vars

\* Shutdown waits in join for a task in flight while another worker is gone
C16_JoinWaitsForTaskInFlight ==
    /\ mpc = "join"
    /\ \E w \in Workers : wpc[w] = "run"
    /\ \E w \in Workers : wpc[w] = "exited"

(***************************************************************************)
(* NestedSpec: the pool with tasks that submit further tasks while they    *)
(* run.  A task running on worker w calls ThreadPool::Submit (wpc[w] =     *)
(* "nsubmit": past the test of shutdown_, before PushBack) or SubmitBatch  *)
(* (wpc[w] = "nbatch": inside its for loop; one PushBack per step).  The   *)
(* thread that owns the pool submits with Submit.                          *)
(***************************************************************************)
\* ThreadPool::GetTargetThread on a thread whose current_thread_id_ is id
\* (the index of a worker thread, -1 on any other thread): the queues it
\* can return
GetTargetThread(id) ==
    IF id >= 0 /\ id < NumWorkers THEN {id} ELSE Workers

\* the closures nextTask .. nextTask + n - 1
NewTasks(n) == [i \in 1 .. n |-> nextTask + i - 1]

\* the task on worker w calls Submit(task)
NestedSubmit(w) ==
    /\ wpc[w] = "run"
    /\ nextTask <= NumTasks
    /\ ~shutdown_
    /\ nested_args' = [nested_args EXCEPT ![w] = NewTasks(1)]
    /\ nextTask' = nextTask + 1
    /\ wpc' = [wpc EXCEPT ![w] = "nsubmit"]
    /\ UNCHANGED <<queues_, active_threads_, total_tasks_, wtask, attempts,
                   completed_sessions_atomic_, failed_sessions_atomic_, mpc,
                   scan, runs, records, nested_idx>>
    /\ UNCHANGED <<machVars, sessVars, playerVars, instVars, downVars, simVars,
                   modelVars, engineVars, writerVars, logVars, replayVars>>

\* queues_[GetTargetThread()].PushBack(task); notify_one
NestedSubmitPush(w) ==
    /\ wpc[w] = "nsubmit"
    /\ \E target_thread \in GetTargetThread(w) :
           queues_' = [queues_ EXCEPT
                          ![target_thread] = PushBack(@, Head(nested_args[w]))]
    /\ nested_args' = [nested_args EXCEPT ![w] = <<>>]
    /\ wpc' = [wpc EXCEPT ![w] = "run"]
    /\ UNCHANGED <<active_threads_, total_tasks_, wtask, attempts,
                   completed_sessions_atomic_, failed_sessions_atomic_, mpc,
                   nextTask, scan, runs, records, nested_idx>>
    /\ UNCHANGED <<machVars, sessVars, playerVars, instVars, downVars, simVars,
                   modelVars, engineVars, writerVars, logVars, replayVars>>

\* the task on worker w calls SubmitBatch(begin, end) with n closures
NestedSubmitBatch(w) ==
    /\ wpc[w] = "run"
    /\ nextTask <= NumTasks
    /\ ~shutdown_
    /\ \E n \in 1 .. (NumTasks - nextTask + 1) :
         /\ nested_args' = [nested_args EXCEPT ![w] = NewTasks(n)]
         /\ nextTask' = nextTask + n
    /\ nested_idx' = [nested_idx EXCEPT ![w] = 0]
    /\ wpc' = [wpc EXCEPT ![w] = "nbatch"]
    /\ UNCHANGED <<queues_, active_threads_, total_tasks_, wtask, attempts,
                   completed_sessions_atomic_, failed_sessions_atomic_, mpc,
                   scan, runs, records>>
    /\ UNCHANGED <<machVars, sessVars, playerVars, instVars, downVars, simVars,
                   modelVars, engineVars, writerVars, logVars, replayVars>>

\* one round of the for loop of SubmitBatch:
\* queues_[thread_idx % thread_count_].PushBack(*it); thread_idx++;
\* at it == end notify_all and return
NestedSubmitBatchPush(w) ==
    /\ wpc[w] = "nbatch"
    /\ IF nested_args[w] # <<>>
       THEN /\ queues_' = [queues_ EXCEPT
                              ![nested_idx[w] % NumWorkers] =
                                  PushBack(@, Head(nested_args[w]))]
            /\ nested_args' = [nested_args EXCEPT ![w] = Tail(@)]
            /\ nested_idx' = [nested_idx EXCEPT ![w] = @ + 1]
            /\ wpc' = wpc
       ELSE /\ nested_idx' = [nested_idx EXCEPT ![w] = 0]
            /\ wpc' = [wpc EXCEPT ![w] = "run"]
            /\ UNCHANGED <<queues_, nested_args>>
    /\ UNCHANGED <<active_threads_, total_tasks_, wtask, attempts,
                   completed_sessions_atomic_, failed_sessions_atomic_, mpc,
                   nextTask, scan, runs, records>>
    /\ UNCHANGED <<machVars, sessVars, playerVars, instVars, downVars, simVars,
                   modelVars, engineVars, writerVars, logVars, replayVars>>

NestedNext ==
    \/ Submit
    \/ \E w \in Workers : WorkerThread(w)
    \/ \E w \in Workers : NestedSubmit(w)
    \/ \E w \in Workers : NestedSubmitPush(w)
    \/ \E w \in Workers : NestedSubmitBatch(w)
    \/ \E w \in Workers : NestedSubmitBatchPush(w)

NestedSpec == PoolSpecInit /\ [][NestedNext]_vars

\* the PushBack of a call made on worker w appends to w's own deque
PushedOnOwnDeque(w) ==
    queues_' = [queues_ EXCEPT ![w] = Append(@, Head(nested_args[w]))]

\* C36: a task submitted from inside a worker thread is enqueued on that
\* worker's own deque, by Submit and by SubmitBatch for every task of the
\* batch (only an external submitter's tasks go to a round-robin or random
\* deque).
C36_NestedTasksOnOwnDeque ==
    [][\A w \in Workers :
          /\ (wpc[w] = "nsubmit" /\ wpc'[w] = "run") => PushedOnOwnDeque(w)
          /\ (wpc[w] = "nbatch" /\ nested_args'[w] # nested_args[w]) =>
                 PushedOnOwnDeque(w)]_vars

(***************************************************************************)
(* Session controller and the part of ExecuteSession around it.            *)
(***************************************************************************)
\* what a player can answer: no bet, a bet of the table, a bet outside of it
Decisions == {PlayerDecision(bet, delay) : bet \in 0 .. 3, delay \in {0, 1}}

\* BalanceDistribution::GenerateBalance: a value clamped to [min, max]
InitialBalances == {2, 3}

\* BasePlayer::IsActive
IsActive == balance_ > 0 /\ active_

\* a spin cap that lets one spin too many through
CheckSessionLimitsOffByOne(st, max_spins, max_duration) ==
    \/ st.total_spins > max_spins
    \/ elapsed >= max_duration

\* SessionController::CheckSessionLimits
CheckSessionLimits(st, max_spins, max_duration) ==
    \/ st.total_spins >= max_spins
    \/ elapsed >= max_duration

\* SlotMachine::IsValidBet
IsValidBet(config, bet_amount) ==
    \E i \in 1 .. Len(config.bet_table) : config.bet_table[i] = bet_amount

\* RunSession: if (decision.bet_amount > player_->GetBalance()) break;
\* a RunSession without the balance test
InsufficientBalanceUnchecked(bet_amount, balance) == FALSE

InsufficientBalanceAtEqual(bet_amount, balance) == bet_amount >= balance

InsufficientBalance(bet_amount, balance) == bet_amount > balance

\* SessionController::UpdateSessionStats
UpdateSessionStats(st, r) ==
    [st EXCEPT !.total_spins = @ + 1,
               !.total_bet = @ + r.bet_amount,
               !.total_win = @ + r.win_amount,
               !.total_profit = @ + r.profit,
               !.free_spins_triggered = @ + (IF r.trigger_free_spins THEN 1 ELSE 0),
               !.free_spins_played = @ + (IF r.in_free_spins THEN 1 ELSE 0),
               !.max_win = Max(@, r.win_amount),
               !.max_loss_streak = IF r.profit < 0 THEN Min(@, r.profit) ELSE @]

\* what spin_history_ keeps of a SpinResult: every field the session reads
\* (the grid and the timestamp are only carried to the CSV writer)
SpinRecord(r) == [f \in (DOMAIN r) \ {"grid"} |-> r[f]]

\* the machines the sessions run on: 3 reels, 1 row, one payline; free spins
\* use the bonus reels when the configuration has them
SessionReels ==
    [normal |-> << <<1, 20>>, <<1, 20>>, <<1, 20>> >>,
     bonus  |-> << <<1>>, <<1>>, <<1, 2>> >>]

SessionMachines ==
    {MachineConfig(n, {101}, 1, [name \in sets |-> SessionReels[name]], << <<0, 1, 2>> >>) :
        n \in 0 .. MaxFreeSpinsCount,
        sets \in {{"normal"}, {"normal", "bonus"}, {"bonus"}}}

\* MachineInterface::GetBetOptions
GetBetOptions(config) == {config.bet_table[i] : i \in 1 .. Len(config.bet_table)}

\* BasePlayer::GetRandomBet: the values it can return
GetRandomBet(config, balance) ==
    LET affordable_bets == {bet \in GetBetOptions(config) : bet <= balance}
    IN IF GetBetOptions(config) = {} THEN {1}
       ELSE IF affordable_bets = {} THEN {0}
       ELSE affordable_bets

\* BasePlayer::GetRandomDelay, in whole seconds
GetRandomDelay == {0, 1}

\* PlayerConfig of a RandomPlayer with a "random" section, of a V1Player
\* end_probability is "positive" (the draw can end the session at any call) or
\* "zero" (prob_dist(rng_) < 0 is never true)
RandomPlayerConfig(max_losses, budget) ==
    [model_version |-> "random", max_consecutive_losses |-> max_losses,
     session_budget |-> budget, end_probability |-> "positive"]

V1PlayerConfig == [model_version |-> "v1", max_consecutive_losses |-> 0, session_budget |-> 0]

\* a limit no session reaches: max_consecutive_losses, session_budget and
\* max_spins_per_session configured out of the way
NoLimit == 1000

\* the random player with end_probability = 0 and no loss or budget limit
UnlimitedRandomPlayer ==
    [RandomPlayerConfig(NoLimit, NoLimit) EXCEPT !.end_probability = "zero"]

PlayerConfigs ==
    {RandomPlayerConfig(max_losses, budget) : max_losses \in {1, 2}, budget \in {2, 3}}
        \cup {V1PlayerConfig}

\* V1Player::CalculateFirstBet: a bet of first_bet_mapping_ (1 and 5 are in it)
CalculateFirstBet == {1, 5}

\* RandomPlayer::ShouldEndSession, the tests that do not draw a random number;
\* max_spins_per_session_ (default 1000) is beyond MaxSpins
ShouldEndSession(losses, spent) ==
    \/ losses >= player_config_.max_consecutive_losses
    \/ spent >= player_config_.session_budget
    \/ balance_ <= 0

\* RandomPlayer::MakeDecision: the decisions it can return; the draw against
\* end_probability_ can end the session at any call
RandomPlayerDecisionsDrawAlways(losses, spent) ==
    {PlayerDecision(0, 0)} \cup
    (IF ShouldEndSession(losses, spent) THEN {}
     ELSE {PlayerDecision(bet, delay) :
              bet \in GetRandomBet(config_, balance_) \ {0}, delay \in GetRandomDelay})

RandomPlayerDecisions(losses, spent) ==
    (IF \/ player_config_.end_probability = "positive"
        \/ ShouldEndSession(losses, spent)
        \/ 0 \in GetRandomBet(config_, balance_)
     THEN {PlayerDecision(0, 0)} ELSE {})
    \cup
    (IF ShouldEndSession(losses, spent) THEN {}
     ELSE {PlayerDecision(bet, delay) :
              bet \in GetRandomBet(config_, balance_) \ {0}, delay \in GetRandomDelay})

\* V1Player::MakeDecision: the first bet is first_bet_amount_, later ones are
\* the model's prediction if it is a valid bet and GetRandomBet otherwise
V1PlayerDecisions(first, amount) ==
    IF first THEN {PlayerDecision(amount, delay) : delay \in GetRandomDelay}
    ELSE {PlayerDecision(bet, delay) :
             bet \in GetRandomBet(config_, balance_), delay \in GetRandomDelay}

\* player_->MakeDecision: what the session's player can answer
MakeDecisionResults ==
    CASE player_config_.model_version = "random" ->
             RandomPlayerDecisions(consecutive_losses_, session_spent_)
      [] player_config_.model_version = "v1" ->
             V1PlayerDecisions(is_first_bet_, first_bet_amount_)
      [] OTHER -> Decisions

\* only a player whose code is not modelled can throw out of MakeDecision
MakeDecisionThrows ==
    IF player_config_.model_version = "any" THEN BOOLEAN ELSE {FALSE}

\* the members MakeDecision writes when it returns d
MakeDecisionEffect(d) ==
    CASE player_config_.model_version = "random" ->
             /\ session_spent_' = IF d.bet_amount > 0 THEN session_spent_ + d.bet_amount
                                  ELSE session_spent_
             /\ consecutive_losses_' =
                    IF d.bet_amount > 0 /\ spin_history_ # <<>>
                    THEN (IF spin_history_[Len(spin_history_)].profit <= 0
                          THEN consecutive_losses_ + 1 ELSE 0)
                    ELSE consecutive_losses_
             /\ UNCHANGED <<player_config_, is_first_bet_, first_bet_amount_>>
      [] player_config_.model_version = "v1" ->
             /\ is_first_bet_' = FALSE
             /\ UNCHANGED <<player_config_, consecutive_losses_, session_spent_,
                            first_bet_amount_>>
      [] OTHER -> UNCHANGED playerVars

\* the player ExecuteSession got from GetInstances, after player->Reset():
\* built by the factory when the pool had none, the pooled instance otherwise
PlayerAtSessionStart(constructed) ==
    CASE player_config_.model_version = "random" ->
             /\ consecutive_losses_' = IF constructed THEN 0 ELSE consecutive_losses_
             /\ session_spent_' = IF constructed THEN 0 ELSE session_spent_
             /\ UNCHANGED <<player_config_, is_first_bet_, first_bet_amount_>>
      [] player_config_.model_version = "v1" ->
             /\ is_first_bet_' = TRUE
             /\ first_bet_amount_' \in CalculateFirstBet
             /\ UNCHANGED <<player_config_, consecutive_losses_, session_spent_>>
      [] OTHER -> UNCHANGED playerVars

\* the limits of the sessions: every spin cap from 0 on, every duration cap
SimulationConfigs ==
    {SimulationConfig(max_spins, max_duration) :
        max_spins \in 0 .. MaxSpins, max_duration \in {0, MaxDuration}}

SessionInit ==
    /\ PoolInit
    /\ EngineIdle
    /\ sim_config \in SimulationConfigs
    /\ config_ \in SessionMachines
    /\ MachineIdle
    /\ SessionIdle
    /\ PlayerIdle

\* ExecuteSession up to the while loop of RunSession: InstancePool::GetInstances,
\* the null check, Reset, the SessionController constructor, RunSession's start
BeginSession ==
    /\ spc = "idle"
    /\ session_no < NumSessions
    /\ \E playerFactoryOk \in BOOLEAN, machineFactoryOk \in BOOLEAN,
          fresh \in InitialBalances :
         LET player == player_pools_ > 0 \/ playerFactoryOk
             machine == machine_pools_ > 0 \/ machineFactoryOk
             t == session_no + 1
         IN /\ player_pools_' = PoolAfterGet(player_pools_)
            /\ machine_pools_' = PoolAfterGet(machine_pools_)
            /\ IF ~player \/ ~machine
               THEN /\ failed_sessions_atomic_' = failed_sessions_atomic_ + 1
                    /\ runs' = [runs EXCEPT ![t] = @ + 1]
                    /\ session_no' = session_no + 1
                    /\ UNCHANGED <<spc, balance_, active_, stats>>
                    /\ UNCHANGED <<held_players, held_machines>>
                    /\ UNCHANGED playerVars
               ELSE /\ PlayerAtSessionStart(player_pools_ = 0)
                    /\ held_players' = held_players + 1
                    /\ held_machines' = held_machines + 1
                    /\ balance_' = fresh
                    /\ active_' = TRUE
                    /\ stats' = [NoStats EXCEPT !.initial_balance = fresh,
                                                !.final_balance = fresh]
                    /\ spc' = "loop"
                    /\ UNCHANGED <<failed_sessions_atomic_, runs, session_no>>
    /\ in_free_spins_' = FALSE
    /\ free_spins_remaining_' = 0
    /\ spin_history_' = <<>>
    /\ elapsed' = 0
    /\ UNCHANGED <<decision, raised>>
    /\ UNCHANGED <<queues_, active_threads_, total_tasks_, wpc, wtask, attempts,
                   completed_sessions_atomic_, mpc, nextTask, scan, records>>
    /\ UNCHANGED <<machVars, instVars, downVars, simVars, modelVars,
                   engineVars, nestVars, writerVars, logVars, replayVars>>

\* RunSession from the end of the while loop (or its catch clause) to return
FinishSession(balance, exception) ==
    /\ balance_' = balance
    /\ stats' = [stats EXCEPT !.final_balance = balance,
                              !.total_profit = balance - stats.initial_balance]
    /\ raised' = exception
    /\ spc' = "returned"
    /\ UNCHANGED <<in_free_spins_, free_spins_remaining_, spin_history_, elapsed>>

\* SessionController::ExecuteSpin with the SpinResult the machine returned,
\* then the sleep of the decision's delay
ExecuteSpin(spin_result_, seconds) ==
    LET enter == spin_result_.trigger_free_spins /\ ~in_free_spins_
        r == [spin_result_ EXCEPT !.spin_number = Len(spin_history_) + 1]
    IN /\ balance_' = balance_ - spin_result_.bet_amount + spin_result_.win_amount
       /\ in_free_spins_' =
              IF enter THEN TRUE
              ELSE IF in_free_spins_ THEN ~(spin_result_.free_spins_remaining <= 0)
              ELSE in_free_spins_
       /\ free_spins_remaining_' =
              IF enter \/ in_free_spins_ THEN spin_result_.free_spins_remaining
              ELSE free_spins_remaining_
       /\ spin_history_' = Append(spin_history_, SpinRecord(r))
       /\ stats' = UpdateSessionStats(stats, r)
       /\ elapsed' = Min(elapsed + seconds, MaxDuration)
       /\ UNCHANGED <<spc, raised>>

\* one pass of the while loop of RunSession
LoopIteration ==
    /\ spc = "loop"
    /\ IF ~IsActive \/ CheckSessionLimits(stats, sim_config.max_spins_per_session,
                                       sim_config.max_session_duration)
       THEN /\ decision' = PlayerDecision(0, 0)
            /\ FinishSession(balance_, FALSE)
            /\ UNCHANGED playerVars
       ELSE \E makeDecisionThrows \in MakeDecisionThrows :
              IF makeDecisionThrows
              THEN /\ decision' = PlayerDecision(0, 0)
                   /\ FinishSession(balance_, TRUE)
                   /\ UNCHANGED playerVars
              ELSE \E d \in MakeDecisionResults :
                     /\ decision' = d
                     /\ MakeDecisionEffect(d)
                     /\ IF ~d.continue_playing \/ d.bet_amount <= 0
                        THEN FinishSession(balance_, FALSE)
                        ELSE IF ~IsValidBet(config_, d.bet_amount)
                        THEN FinishSession(balance_, FALSE)
                        ELSE IF InsufficientBalance(d.bet_amount, balance_)
                        THEN FinishSession(balance_, FALSE)
                        ELSE IF SpinThrows(config_, in_free_spins_)
                        THEN FinishSession(balance_ - d.bet_amount, TRUE)
                        ELSE \E pos \in Positions(config_.reels[ReelSetName(config_, in_free_spins_)]),
                                seconds \in d.delay_time .. (d.delay_time + 1) :
                               ExecuteSpin(Spin(config_, pos, d.bet_amount, in_free_spins_,
                                                free_spins_remaining_), seconds)
    /\ UNCHANGED <<session_no, player_pools_, machine_pools_, held_players,
                   held_machines, active_>>
    /\ UNCHANGED <<poolVars, machVars, instVars, downVars, simVars, modelVars,
                   engineVars, nestVars, writerVars, logVars, replayVars>>

\* ExecuteSession after RunSession: InstancePool::ReturnInstances, the
\* callback, the counters
EndSession ==
    /\ spc = "returned"
    /\ \E callbackOk \in BOOLEAN :
         LET t == session_no + 1
             outcome == ExecuteSessionOutcome(TRUE, callbackOk)
         IN /\ records' = [records EXCEPT ![t] = @ + 1]
            /\ runs' = [runs EXCEPT ![t] = @ + 1]
            /\ completed_sessions_atomic_' =
                   completed_sessions_atomic_ + (IF outcome = "completed" THEN 1 ELSE 0)
            /\ failed_sessions_atomic_' =
                   failed_sessions_atomic_ + (IF outcome = "failed" THEN 1 ELSE 0)
    /\ player_pools_' = PoolAfterReturn(player_pools_, TRUE)
    /\ machine_pools_' = PoolAfterReturn(machine_pools_, TRUE)
    /\ held_players' = held_players - 1
    /\ held_machines' = held_machines - 1
    /\ session_no' = session_no + 1
    /\ spc' = "idle"
    /\ balance_' = 0
    /\ stats' = NoStats
    /\ spin_history_' = <<>>
    /\ in_free_spins_' = FALSE
    /\ free_spins_remaining_' = 0
    /\ decision' = PlayerDecision(0, 0)
    /\ elapsed' = 0
    /\ raised' = FALSE
    /\ UNCHANGED active_
    /\ UNCHANGED <<queues_, active_threads_, total_tasks_, wpc, wtask, attempts,
                   mpc, nextTask, scan>>
    /\ UNCHANGED <<machVars, playerVars, instVars, downVars, simVars,
                   modelVars, engineVars, nestVars, writerVars, logVars,
                   replayVars>>

SessionNext ==
    \/ BeginSession
    \/ LoopIteration
    \/ EndSession

SessionSpec == SessionInit /\ [][SessionNext]_vars

(***************************************************************************)
(* Claims about sessions (checked under SessionSpec).                      *)
(***************************************************************************)
\* the step is a pass of the loop that executed a spin
SpinExecuted == spc = "loop" /\ Len(spin_history_') = Len(spin_history_) + 1

LastSpin(history) == history[Len(history)]

\* C4: a session in which the decision or the spin raised is abandoned: its
\* record does not reach the callback, failed_sessions goes up by one,
\* completed_sessions does not, and the player and the machine are not put
\* back into the instance pool.
C4_RaisedSessionAbandoned ==
    [][(spc = "returned" /\ raised) =>
          /\ records' = records
          /\ failed_sessions_atomic_' = failed_sessions_atomic_ + 1
          /\ completed_sessions_atomic_' = completed_sessions_atomic_
          /\ player_pools_' = player_pools_
          /\ machine_pools_' = machine_pools_]_vars

\* the conditions under which the loop goes on to spin
Admissible(d, balance) ==
    /\ d.continue_playing
    /\ d.bet_amount > 0
    /\ IsValidBet(config_, d.bet_amount)
    /\ d.bet_amount <= balance
    /\ ~CheckSessionLimits(stats, sim_config.max_spins_per_session,
                                       sim_config.max_session_duration)

\* bet debited, win credited, one record appended
SpinTaken ==
    /\ SpinExecuted
    /\ LastSpin(spin_history_').bet_amount = decision'.bet_amount
    /\ balance_' = balance_ - decision'.bet_amount + LastSpin(spin_history_').win_amount

RECURSIVE SumProfits(_)
SumProfits(history) ==
    IF history = <<>> THEN 0
    ELSE LastSpin(history).profit + SumProfits(SubSeq(history, 1, Len(history) - 1))

\* C6: in every session record RunSession returns, final_balance is
\* initial_balance + total_profit and total_profit is the sum of the profits
\* of the session's spin records.
C6_FinalBalanceIsInitialPlusProfits ==
    spc = "returned" =>
        /\ stats.final_balance = stats.initial_balance + stats.total_profit
        /\ stats.total_profit = SumProfits(spin_history_)

\* free-mode records at the end of the history
RECURSIVE TrailingFreeSpins(_)
TrailingFreeSpins(history) ==
    IF history = <<>> \/ ~LastSpin(history).in_free_spins THEN 0
    ELSE 1 + TrailingFreeSpins(SubSeq(history, 1, Len(history) - 1))

\* C9: a trigger in base play enters free-spin mode with remaining =
\* free_spins_count; every spin in free-spin mode lowers remaining by one; when
\* the session goes back to base play, exactly free_spins_count spins were
\* played in free-spin mode.
C9_ExactlyNFreeSpins ==
    [][SpinExecuted =>
          LET r == LastSpin(spin_history_')
          IN /\ (~in_free_spins_ /\ r.trigger_free_spins) =>
                    /\ in_free_spins_'
                    /\ free_spins_remaining_' = config_.free_spins_count
             /\ in_free_spins_ =>
                    /\ r.in_free_spins
                    /\ free_spins_remaining_' = free_spins_remaining_ - 1
             /\ (in_free_spins_ /\ ~in_free_spins_') =>
                    TrailingFreeSpins(spin_history_') = config_.free_spins_count]_vars

\* C10: a spin in free-spin mode does not debit the balance and adds nothing
\* to total_bet; only its win changes the balance.
C10_FreeSpinAtZeroWager ==
    [][(SpinExecuted /\ in_free_spins_) =>
          /\ balance_' = balance_ + LastSpin(spin_history_').win_amount
          /\ stats'.total_bet = stats.total_bet]_vars

\* C11: free spins never re-trigger: a spin resolved in free-spin mode has
\* trigger_free_spins = FALSE and does not raise free_spins_remaining, and
\* free_spins_triggered goes up exactly on a trigger in base play.
C11_NoRetrigger ==
    [][SpinExecuted =>
          LET r == LastSpin(spin_history_')
          IN /\ in_free_spins_ =>
                    /\ r.in_free_spins
                    /\ ~r.trigger_free_spins
                    /\ free_spins_remaining_' <= free_spins_remaining_
             /\ stats'.free_spins_triggered = stats.free_spins_triggered +
                    (IF ~in_free_spins_ /\ r.trigger_free_spins THEN 1 ELSE 0)]_vars

\* a free spin was played on the normal reels, which carry the scatter
C11_FreeSpinOnScatterReels ==
    /\ "bonus" \notin DOMAIN config_.reels
    /\ stats.free_spins_triggered = 1
    /\ \E i \in 1 .. Len(spin_history_) : spin_history_[i].in_free_spins

\* C21: every session terminates within the spin cap: a pass of RunSession's
\* loop either leaves the loop or adds exactly one spin, the spins never
\* exceed max_spins (none at all when max_spins = 0), and the record's
\* total_spins is the number of spins in the history.
C21_SpinCapAndProgress ==
    [][/\ spc' \in {"loop", "returned"} =>
            /\ stats'.total_spins <= sim_config'.max_spins_per_session
            /\ stats'.total_spins = Len(spin_history_')
       /\ spc = "loop" =>
            \/ spc' = "returned"
            \/ stats'.total_spins = stats.total_spins + 1]_vars

\* a session stopped by the spin cap alone: money and time are left
C21_StoppedBySpinCap ==
    /\ spc = "returned"
    /\ sim_config.max_spins_per_session = MaxSpins
    /\ stats.total_spins = MaxSpins
    /\ balance_ > 0
    /\ elapsed < sim_config.max_session_duration
    /\ ~raised

\* RunSession has returned after the break on a bet that is not in the bet
\* table or exceeds the balance: a decision to bet was made, no spin followed
\* it and nothing was raised
EndedOnRejectedBet ==
    /\ spc = "returned"
    /\ ~raised
    /\ decision.continue_playing
    /\ decision.bet_amount > 0
    /\ ~IsValidBet(config_, decision.bet_amount) \/ decision.bet_amount > balance_

\* C26: a session that ends because the bet is not an admissible bet or
\* exceeds the balance is not an error: its record covers the spins played,
\* is handed to the callback, and the session is counted as completed, not
\* as failed.
C26_RejectedBetEndsSessionNormally ==
    [][EndedOnRejectedBet =>
          /\ stats.total_spins = Len(spin_history_)
          /\ records' = [records EXCEPT ![session_no + 1] = @ + 1]
          /\ completed_sessions_atomic_' = completed_sessions_atomic_ + 1
          /\ failed_sessions_atomic_' = failed_sessions_atomic_]_vars

\* ExecuteSession has returned at its null check: no session was run
GetInstancesFailed ==
    spc = "idle" /\ spc' = "idle" /\ session_no' = session_no + 1

\* C39: when GetInstances cannot deliver both instances (a factory returns
\* null) the task is counted as failed exactly once, nothing else is counted
\* or published, and the worker's two stacks for the fingerprint are as they
\* were before the call: no instance was popped for the other role, because
\* a factory is only asked when the stacks, which fill and empty together,
\* are both empty.
C39_FailedGetLeavesPool ==
    [][GetInstancesFailed =>
          /\ failed_sessions_atomic_' = failed_sessions_atomic_ + 1
          /\ completed_sessions_atomic_' = completed_sessions_atomic_
          /\ records' = records
          /\ player_pools_' = player_pools_ /\ machine_pools_' = machine_pools_
          /\ player_pools_ = 0 /\ machine_pools_ = 0
          /\ held_players' = held_players /\ held_machines' = held_machines]_vars

\* the first task of the worker failed in GetInstances and a later one ran a
\* session, whose instances are now pooled
C39_FailedThenPooled ==
    /\ runs[1] = 1
    /\ records[1] = 0
    /\ failed_sessions_atomic_ = 1
    /\ session_no = 2
    /\ records[2] = 1
    /\ player_pools_ = 1
    /\ machine_pools_ = 1

\* C35: the clock the duration cap is tested against is a logical clock:
\* every spin advances it by the decision's delay and by nothing else, so
\* that a session is ended by the duration cap once the accumulated delays
\* reach it, whatever wall-clock time the spins took.
C35_ClockAdvancesByDelayOnly ==
    [][/\ SpinExecuted => elapsed' = Min(elapsed + decision'.delay_time, MaxDuration)
       /\ (spc = "loop" /\ spc' = "loop" /\ ~SpinExecuted) => elapsed' = elapsed]_vars

(***************************************************************************)
(* PlayerSpec: the sessions of SessionSpec played by a RandomPlayer or a    *)
(* V1Player on one machine, the instance going through the worker's pool.   *)
(***************************************************************************)
\* a machine that never pays: no scatter on the reels, payout rows of 0, the
\* single bet 1
LosingMachine ==
    [MachineConfig(0, {101}, 1, [normal |-> << <<1, 2>>, <<1, 2>>, <<1, 2>> >>],
                   << <<0, 1, 2>> >>)
        EXCEPT !.pay_table = (1 :> <<0, 0, 0>>) @@ (2 :> <<0, 0, 0>>),
               !.bet_table = <<1>>]

PlayerMachines ==
    {m \in SessionMachines : DOMAIN m.reels = {"normal"} /\ m.free_spins_count = 1}

PlayerSpecInit ==
    /\ PoolInit
    /\ EngineIdle
    /\ LargestLimits
    /\ config_ \in PlayerMachines
    /\ MachineIdle
    /\ SessionIdle
    /\ player_config_ \in PlayerConfigs
    /\ consecutive_losses_ = 0
    /\ session_spent_ = 0
    /\ is_first_bet_ = TRUE
    /\ first_bet_amount_ \in CalculateFirstBet

PlayerSpec == PlayerSpecInit /\ [][SessionNext]_vars

\* what a player just built by the factory can answer to the first MakeDecision
FreshPlayerDecisions ==
    CASE player_config_.model_version = "random" -> RandomPlayerDecisions(0, 0)
      [] player_config_.model_version = "v1" -> V1PlayerDecisions(TRUE, first_bet_amount_)
      [] OTHER -> Decisions

\* C12: every session starts with the player's per-session state cleared
\* (consecutive-loss counter, session-spent amount, first-bet flag), so that
\* its first decision is one a freshly built player with that balance makes.
C12_SessionStartsFromResetState ==
    (spc = "loop" /\ spin_history_ = <<>>) =>
        /\ consecutive_losses_ = 0
        /\ session_spent_ = 0
        /\ is_first_bet_
        /\ MakeDecisionResults = FreshPlayerDecisions

\* the losing spins (profit < 0) at the end of a spin history
TrailingLosses(history) ==
    LET RECURSIVE Count(_)
        Count(k) == IF k = 0 THEN 0
                    ELSE IF history[k].profit < 0 THEN 1 + Count(k - 1)
                    ELSE 0
    IN Count(Len(history))

\* C34: a random player with max_consecutive_losses = T ends the session at
\* the first decision made after T consecutive losing spins, so the spins of
\* a session never end in more than T consecutive losing spins.
C34_AtMostTConsecutiveLosses ==
    (player_config_.model_version = "random" /\ spc # "idle") =>
        TrailingLosses(spin_history_) <= player_config_.max_consecutive_losses

(***************************************************************************)
(* UnlimitedPlayerSpec: the sessions of one worker played by the random    *)
(* player with end_probability = 0 and no loss or budget limit, on the     *)
(* machines of PlayerSpec and on the machine that never pays, under every  *)
(* spin cap and duration cap.                                              *)
(***************************************************************************)
UnlimitedPlayerInit ==
    /\ PoolInit
    /\ EngineIdle
    /\ sim_config \in SimulationConfigs
    /\ config_ \in PlayerMachines \cup {LosingMachine}
    /\ MachineIdle
    /\ SessionIdle
    /\ player_config_ = UnlimitedRandomPlayer
    /\ consecutive_losses_ = 0
    /\ session_spent_ = 0
    /\ is_first_bet_ = TRUE
    /\ first_bet_amount_ = 1

UnlimitedPlayerSpec == UnlimitedPlayerInit /\ [][SessionNext]_vars

\* a session of the random player with end_probability = 0 and no loss or
\* budget limit has returned
UnlimitedSessionReturned == spc = "returned" /\ player_config_ = UnlimitedRandomPlayer

\* no available bet is affordable (a balance of 0 or less is one such case)
NoAffordableBet == GetRandomBet(config_, balance_) = {0}

SpinCapReached == stats.total_spins >= sim_config.max_spins_per_session

DurationCapReached == elapsed >= sim_config.max_session_duration

\* on the machine that never pays, with the bets [1], a spin cap of at least
\* the initial balance and the duration cap not reached, the session makes
\* exactly initial-balance spins and ends with balance 0
LosingSessionRunsBalanceDown ==
    (/\ config_ = LosingMachine
     /\ sim_config.max_spins_per_session >= stats.initial_balance
     /\ ~DurationCapReached)
        => /\ stats.total_spins = stats.initial_balance
           /\ stats.final_balance = 0

MaxBalance == 4      \* largest balance of the V1 player

\* dqn_output[0] > 0.5f, in tenths
TerminationThreshold == 5

\* V1ModelLoader::PredictBetAmount
PredictBetAmount(output) ==
    IF output.throws THEN 1
    ELSE IF output.values = <<>> THEN 1
    ELSE IF output.values[1] <= 0 THEN 1
    ELSE output.values[1]

\* V1ModelLoader::PredictTermination
PredictTermination(dqn, isolation) ==
    IF dqn.throws THEN FALSE
    ELSE IF dqn.values = <<>> THEN FALSE
    ELSE IF isolation.throws THEN FALSE
    ELSE LET dqn_decision == dqn.values[1] > TerminationThreshold
             is_normal == isolation.values # <<>> /\ isolation.values[1] > 0
         IN IF ~is_normal THEN TRUE ELSE dqn_decision

\* V1Player::ShouldTerminate
ShouldTerminate(outputs) ==
    IF outputs.prepare_throws THEN FALSE
    ELSE PredictTermination(outputs.dqn, outputs.isolation)

\* BasePlayer::IsValidBet
PlayerIsValidBet(config, bet_amount, balance) ==
    /\ bet_amount > 0
    /\ bet_amount <= balance
    /\ bet_amount \in GetBetOptions(config)

\* V1Player::DecideBetAmount: the bets it can return and where they come from
DecideBetAmount(config, balance, output) ==
    LET predicted_bet == PredictBetAmount(output)
    IN IF ~PlayerIsValidBet(config, predicted_bet, balance)
       THEN {[bet |-> bet, source |-> "random"] : bet \in GetRandomBet(config, balance)}
       ELSE {[bet |-> predicted_bet, source |-> "predicted"]}

\* the body of V1Player::MakeDecision: ShouldTerminate is not called
V1PlayerBets(config, balance, first, amount, outputs) ==
    IF first THEN {[bet |-> amount, source |-> "first"]}
    ELSE IF outputs.prepare_throws
    THEN {[bet |-> bet, source |-> "fallback"] : bet \in GetRandomBet(config, balance)}
    ELSE DecideBetAmount(config, balance, outputs.betting)

BettingOutputs ==
    {ModelOutput(TRUE, <<>>), ModelOutput(FALSE, <<>>)}
        \cup {ModelOutput(FALSE, <<x>>) : x \in -1 .. 3}

DqnOutputs ==
    {ModelOutput(TRUE, <<>>), ModelOutput(FALSE, <<>>)}
        \cup {ModelOutput(FALSE, <<x>>) :
                 x \in (TerminationThreshold - 1) .. (TerminationThreshold + 1)}

IsolationOutputs ==
    {ModelOutput(TRUE, <<>>), ModelOutput(FALSE, <<>>)}
        \cup {ModelOutput(FALSE, <<x>>) : x \in -1 .. 1}

\* the bet options of the player's currency: two lists, and none
V1Machines == {[LosingMachine EXCEPT !.bet_table = bets] : bets \in {<<1, 2>>, <<2, 3>>, <<>>}}

V1Init ==
    /\ PoolInit
    /\ EngineIdle
    /\ LargestLimits
    /\ config_ \in V1Machines
    /\ MachineIdle
    /\ SessionIdle
    /\ player_config_ = V1PlayerConfig
    /\ consecutive_losses_ = 0
    /\ session_spent_ = 0
    /\ is_first_bet_ = TRUE
    /\ first_bet_amount_ \in CalculateFirstBet

\* V1Player::MakeDecision, called by RunSession once per pass of its loop:
\* a spin (UpdateBalance) or the end of the session (Reset) follows each call
V1MakeDecision ==
    /\ bet_source = "none"
    /\ \E prepare_throws \in BOOLEAN, betting \in BettingOutputs, dqn \in DqnOutputs,
          isolation \in IsolationOutputs :
         LET outputs == ModelOutputs(prepare_throws, betting, dqn, isolation)
         IN /\ model_outputs' = outputs
            /\ \E b \in V1PlayerBets(config_, balance_, is_first_bet_,
                                     first_bet_amount_, outputs),
                  delay \in GetRandomDelay :
                 /\ decision' = PlayerDecision(b.bet, delay)
                 /\ bet_source' = b.source
    /\ is_first_bet_' = FALSE
    /\ UNCHANGED <<player_config_, consecutive_losses_, session_spent_, first_bet_amount_>>
    /\ UNCHANGED <<spc, session_no, player_pools_, machine_pools_, held_players,
                   held_machines, balance_, active_, in_free_spins_,
                   free_spins_remaining_, spin_history_, stats, elapsed, raised>>
    /\ UNCHANGED <<poolVars, machVars, instVars, downVars, simVars, engineVars,
                   nestVars, writerVars, logVars, replayVars>>

\* V1Player::Reset
V1Reset ==
    /\ balance_' \in InitialBalances
    /\ active_' = TRUE
    /\ is_first_bet_' = TRUE
    /\ first_bet_amount_' \in CalculateFirstBet
    /\ model_outputs' = NoOutputs
    /\ bet_source' = "none"
    /\ UNCHANGED <<player_config_, consecutive_losses_, session_spent_>>
    /\ UNCHANGED <<spc, session_no, player_pools_, machine_pools_, held_players,
                   held_machines, in_free_spins_, free_spins_remaining_,
                   spin_history_, stats, decision, elapsed, raised>>
    /\ UNCHANGED <<poolVars, machVars, instVars, downVars, simVars, engineVars,
                   nestVars, writerVars, logVars, replayVars>>

\* BasePlayer::UpdateBalance, as ExecuteSpin calls it
UpdateBalance ==
    /\ \E amount \in -2 .. 2 :
         /\ balance_ + amount \in 0 .. MaxBalance
         /\ balance_' = balance_ + amount
    /\ model_outputs' = NoOutputs
    /\ bet_source' = "none"
    /\ UNCHANGED <<spc, session_no, player_pools_, machine_pools_, held_players,
                   held_machines, active_, in_free_spins_, free_spins_remaining_,
                   spin_history_, stats, decision, elapsed, raised>>
    /\ UNCHANGED <<poolVars, machVars, playerVars, instVars, downVars, simVars,
                   engineVars, nestVars, writerVars, logVars, replayVars>>

V1Next ==
    \/ V1MakeDecision
    \/ V1Reset
    \/ UpdateBalance

V1Spec == V1Init /\ [][V1Next]_vars

\* a MakeDecision call of the V1 player has just returned
V1Decided == bet_source # "none"

\* C23: a V1 player returns a stop decision at every decision where the
\* termination predictor's output exceeds 0.5 or the anomaly score marks the
\* session state as out of distribution; otherwise it continues (it bets,
\* or no bet is affordable).
C23_StopsWhenPredictorSaysSo ==
    V1Decided =>
        /\ ShouldTerminate(model_outputs) => ~decision.continue_playing
        /\ ~ShouldTerminate(model_outputs) =>
               \/ decision.continue_playing
               \/ GetRandomBet(config_, balance_) = {0}

\* the bet predictor's output is <= 0 or not in the available-bets list
BetPredictionUnusable ==
    /\ ~model_outputs.prepare_throws
    /\ ~model_outputs.betting.throws
    /\ model_outputs.betting.values # <<>>
    /\ \/ model_outputs.betting.values[1] <= 0
       \/ model_outputs.betting.values[1] \notin GetBetOptions(config_)

\* C24: every bet a V1 player returns after the first bet of a session is 0
\* or a member of the available-bets list that is <= the balance, and
\* whenever the bet predictor's output is <= 0 or not in the list the bet
\* is the random choice among the affordable bets, not the prediction or a
\* fixed default.
C24_LaterBetsAffordableElseRandom ==
    (V1Decided /\ bet_source # "first") =>
        /\ \/ decision.bet_amount = 0
           \/ /\ decision.bet_amount \in GetBetOptions(config_)
              /\ decision.bet_amount <= balance_
        /\ BetPredictionUnusable => bet_source = "random"

(***************************************************************************)
(* BalanceSpec: a player built from a PlayerConfig with any balance         *)
(* distribution (min <= max) and reset any number of times.                *)
(***************************************************************************)
\* struct BalanceDistribution
BalanceDistribution(avg, std, min, max) == [avg |-> avg, std |-> std, min |-> min, max |-> max]

\* std::clamp
Clamp(v, lo, hi) == IF v < lo THEN lo ELSE IF hi < v THEN hi ELSE v

\* BalanceDistribution::GenerateBalance: the values it can return; the normal
\* sample falls below min, between min and max, or above max
GenerateBalance(d) ==
    IF d.std <= 0 THEN {d.avg}
    ELSE {Clamp(balance, d.min, d.max) : balance \in (d.min - 1) .. (d.max + 1)}

BalanceDistributions ==
    {BalanceDistribution(avg, std, min, max) :
        avg \in 0 .. MaxBalance, std \in -1 .. 1,
        min \in 1 .. (MaxBalance - 1), max \in 1 .. (MaxBalance - 1)}

\* the PlayerConfig of a player whose decisions are left open
BalancePlayerConfig(d) ==
    [model_version |-> "any", max_consecutive_losses |-> 0, session_budget |-> 0,
     initial_balance |-> d]

\* BasePlayer::BasePlayer: the balance is drawn at construction
BalanceInit ==
    /\ PoolInit
    /\ EngineIdle
    /\ LargestLimits
    /\ config_ = LosingMachine
    /\ MachineIdle
    /\ \E d \in BalanceDistributions :
         /\ d.min <= d.max
         /\ player_config_ = BalancePlayerConfig(d)
         /\ balance_ \in GenerateBalance(d)
    /\ active_ = TRUE
    /\ consecutive_losses_ = 0
    /\ session_spent_ = 0
    /\ is_first_bet_ = TRUE
    /\ first_bet_amount_ = 1
    /\ spc = "idle"
    /\ session_no = 0
    /\ player_pools_ = 0
    /\ machine_pools_ = 0
    /\ held_players = 0
    /\ held_machines = 0
    /\ in_free_spins_ = FALSE
    /\ free_spins_remaining_ = 0
    /\ spin_history_ = <<>>
    /\ stats = NoStats
    /\ decision = PlayerDecision(0, 0)
    /\ elapsed = 0
    /\ raised = FALSE

\* BasePlayer::Reset
BasePlayerReset ==
    /\ balance_' \in GenerateBalance(player_config_.initial_balance)
    /\ active_' = TRUE
    /\ UNCHANGED <<spc, session_no, player_pools_, machine_pools_, held_players,
                   held_machines, in_free_spins_, free_spins_remaining_,
                   spin_history_, stats, decision, elapsed, raised>>
    /\ UNCHANGED <<poolVars, machVars, playerVars, instVars, downVars, simVars,
                   modelVars, engineVars, nestVars, writerVars, logVars,
                   replayVars>>

BalanceSpec == BalanceInit /\ [][BasePlayerReset]_vars

\* C25: every initial balance produced by GenerateBalance, at construction
\* and at every Reset, lies in [min, max], for all parameters with
\* min <= max, including std <= 0 and an avg outside [min, max].
C25_BalanceWithinRange ==
    /\ player_config_.initial_balance.min <= balance_
    /\ balance_ <= player_config_.initial_balance.max

(***************************************************************************)
(* PayoutSpec: the sessions of one worker on machines whose pay table the   *)
(* loader took from the configuration file as it stands: payout factors    *)
(* above zero, zero, or below zero (ParsePayTableConfig reads floats and    *)
(* tests nothing).  The player's decisions are left open.                   *)
(***************************************************************************)
PayoutRows == {<<2, 3, 5>>, <<0, 0, 0>>, <<-2, -3, -5>>}

PayoutMachines ==
    {[MachineConfig(0, {101}, 1, [normal |-> SessionReels.normal], << <<0, 1, 2>> >>)
         EXCEPT !.pay_table = (1 :> row)] : row \in PayoutRows}

PayoutInit ==
    /\ PoolInit
    /\ EngineIdle
    /\ sim_config \in SimulationConfigs
    /\ config_ \in PayoutMachines
    /\ MachineIdle
    /\ SessionIdle
    /\ PlayerIdle

PayoutSpec == PayoutInit /\ [][SessionNext]_vars

\* no payout factor and no free-spin multiplier of the machine is negative
NonNegativePayouts(config) ==
    /\ config.free_spins_multiplier >= 0
    /\ \A symbol \in DOMAIN config.pay_table :
           \A i \in 1 .. Len(config.pay_table[symbol]) : config.pay_table[symbol][i] >= 0

\* the balance after the debit of a spin, and after the step
BalanceStaysNonNegative ==
    /\ balance_' >= 0
    /\ SpinExecuted => balance_ - decision'.bet_amount >= 0

InstancePoolInit ==
    /\ PoolInit
    /\ EngineIdle
    /\ LargestLimits
    /\ config_ = NoMachine
    /\ MachineIdle
    /\ SessionIdle
    /\ PlayerIdle

\* InstancePool::GetInstances
GetInstances ==
    /\ held_players < MaxHeld
    /\ held_machines < MaxHeld
    /\ \E playerFactoryOk \in BOOLEAN, machineFactoryOk \in BOOLEAN :
         /\ player_pools_' = PoolAfterGet(player_pools_)
         /\ machine_pools_' = PoolAfterGet(machine_pools_)
         /\ held_players' = IF player_pools_ > 0 \/ playerFactoryOk
                            THEN held_players + 1 ELSE held_players
         /\ held_machines' = IF machine_pools_ > 0 \/ machineFactoryOk
                             THEN held_machines + 1 ELSE held_machines
    /\ UNCHANGED <<spc, session_no, balance_, active_, in_free_spins_,
                   free_spins_remaining_, spin_history_, stats, decision, elapsed,
                   raised>>
    /\ UNCHANGED <<poolVars, machVars, playerVars, instVars, downVars, simVars,
                   modelVars, engineVars, nestVars, writerVars, logVars,
                   replayVars>>

\* InstancePool::ReturnInstances
ReturnInstances ==
    /\ \E player \in BOOLEAN, machine \in BOOLEAN :
         /\ player => held_players > 0
         /\ machine => held_machines > 0
         /\ player_pools_' = PoolAfterReturn(player_pools_, player)
         /\ machine_pools_' = PoolAfterReturn(machine_pools_, machine)
         /\ held_players' = IF player THEN held_players - 1 ELSE held_players
         /\ held_machines' = IF machine THEN held_machines - 1 ELSE held_machines
    /\ UNCHANGED <<spc, session_no, balance_, active_, in_free_spins_,
                   free_spins_remaining_, spin_history_, stats, decision, elapsed,
                   raised>>
    /\ UNCHANGED <<poolVars, machVars, playerVars, instVars, downVars, simVars,
                   modelVars, engineVars, nestVars, writerVars, logVars,
                   replayVars>>

InstancePoolNext ==
    \/ GetInstances
    \/ ReturnInstances

InstancePoolSpec == InstancePoolInit /\ [][InstancePoolNext]_vars

\* C13: each stack holds at most 3 instances; ReturnInstances grows a stack
\* only if it held fewer than 3; GetInstances hands out a factory-built
\* instance only when the stack is empty.
C13_PoolBounded ==
    [][/\ player_pools_' <= 3
       /\ machine_pools_' <= 3
       /\ player_pools_' > player_pools_ => player_pools_ < 3
       /\ machine_pools_' > machine_pools_ => machine_pools_ < 3
       /\ (held_players' > held_players /\ player_pools_' = player_pools_) =>
              player_pools_ = 0
       /\ (held_machines' > held_machines /\ machine_pools_' = machine_pools_) =>
              machine_pools_ = 0
       /\ (held_players' < held_players /\ player_pools_' = player_pools_) =>
              player_pools_ = 3
       /\ (held_machines' < held_machines /\ machine_pools_' = machine_pools_) =>
              machine_pools_ = 3]_vars

\* both stacks are full and the caller still holds instances to give back
C13_FullStacksAndHeld ==
    /\ player_pools_ = 3
    /\ machine_pools_ = 3
    /\ held_players > 0
    /\ held_machines > 0

(***************************************************************************)
(* MachineSpec: one spin, or one payline evaluation, of a machine of       *)
(* MachineConfigs.  Spin and CalculatePaylineWin are functions of the      *)
(* configuration and of their inputs, so the initial states draw the       *)
(* inputs (the reel positions the RNG delivers, or the symbols on the      *)
(* payline) and the actions apply the code to them.                        *)
(***************************************************************************)
NotEvaluated == -1

MachineInit ==
    /\ PoolInit
    /\ EngineIdle
    /\ LargestLimits
    /\ config_ \in MachineConfigs
    /\ spin_result = NoSpinResult
    /\ line_win = NotEvaluated
    /\ SessionIdle
    /\ PlayerIdle
    /\ \/ /\ positions \in Positions(config_.reels["normal"])
          /\ line = <<>>
       \/ /\ positions = <<>>
          /\ line \in [1 .. Len(config_.reels["normal"]) -> LineSymbols(config_)]

MachineSpin ==
    /\ positions # <<>>
    /\ spin_result = NoSpinResult
    /\ \E in_free_spins \in BOOLEAN, free_spins_remaining \in {0, 2},
          bet_amount \in {config_.bet_table[i] : i \in 1 .. Len(config_.bet_table)} :
         /\ ~SpinThrows(config_, in_free_spins)
         /\ spin_result' = Spin(config_, positions, bet_amount, in_free_spins,
                                free_spins_remaining)
    /\ UNCHANGED <<config_, positions, line, line_win>>
    /\ UNCHANGED <<poolVars, sessVars, playerVars, instVars, downVars, simVars,
                   modelVars, engineVars, nestVars, writerVars, logVars,
                   replayVars>>

EvaluatePayline ==
    /\ line # <<>>
    /\ line_win = NotEvaluated
    /\ line_win' = CalculatePaylineWin(config_.pay_table, line,
                                       [i \in 1 .. Len(line) |-> i - 1], 1)
    /\ UNCHANGED <<config_, positions, spin_result, line>>
    /\ UNCHANGED <<poolVars, sessVars, playerVars, instVars, downVars, simVars,
                   modelVars, engineVars, nestVars, writerVars, logVars,
                   replayVars>>

MachineNext ==
    \/ MachineSpin
    \/ EvaluatePayline

MachineSpec == MachineInit /\ [][MachineNext]_vars

(***************************************************************************)
(* Claims about the machine (checked under MachineSpec).                   *)
(***************************************************************************)
\* the reels whose visible window shows the scatter, from the strips and the
\* drawn positions
ReelShowsScatter(config, reel_set, pos, c) ==
    \E i \in 0 .. (config.window_size - 1) :
        Cell(reel_set[c], (pos[c] + i) % Len(reel_set[c])) = config.scatter_symbol

ReelsShowingScatter(config, reel_set, pos) ==
    Cardinality({c \in 1 .. Len(reel_set) : ReelShowsScatter(config, reel_set, pos, c)})

\* C7: a base-play spin reports trigger_free_spins exactly when the scatter is
\* visible on at least 3 distinct reels of the grid GenerateGrid produced.
C7_TriggerIffThreeScatterReels ==
    (spin_result # NoSpinResult /\ ~spin_result.in_free_spins) =>
        (spin_result.trigger_free_spins
            <=> ReelsShowingScatter(config_, config_.reels["normal"], positions) >= 3)

\* the left-anchored run of the specification: anchor = first symbol outside
\* the wild set; the run extends from the first symbol while the symbol is the
\* anchor or wild
HasAnchor(symbols, wilds) == \E i \in 1 .. Len(symbols) : symbols[i] \notin wilds

Anchor(symbols, wilds) ==
    symbols[CHOOSE i \in 1 .. Len(symbols) :
                /\ symbols[i] \notin wilds
                /\ \A j \in 1 .. (i - 1) : symbols[j] \in wilds]

LeftAnchoredRun(symbols, wilds) ==
    IF ~HasAnchor(symbols, wilds) THEN Len(symbols)
    ELSE LET a == Anchor(symbols, wilds)
             extends(i) == symbols[i] = a \/ symbols[i] \in wilds
         IN Cardinality({k \in 1 .. Len(symbols) : \A i \in 1 .. k : extends(i)})

\* C8: for every payline symbol sequence and every configured wild set the
\* run length PayTable uses is the left-anchored run with wild substitution
\* and the payout row it looks up is the anchor's.
C8_RunIsLeftAnchoredRun ==
    line_win # NotEvaluated =>
        /\ CountConsecutiveSymbols(line) = LeftAnchoredRun(line, config_.wild_symbols)
        /\ HasAnchor(line, config_.wild_symbols) =>
               BaseSymbol(line) = Anchor(line, config_.wild_symbols)

\* the payout the clamped lookup gives: row[min(k - 3, len - 1)]
ClampedPayout(payouts, k) == Cell(payouts, Min(k - 3, Len(payouts) - 1))

\* C19: a run of k >= 3 symbols whose base symbol has a payout row pays
\* row[min(k - 3, len - 1)] x bet (bet 1 here): a run longer than the row
\* uses the row's last entry, for every number of reels.
C19_LongRunPaysLastEntry ==
    (/\ line_win # NotEvaluated
     /\ CountConsecutiveSymbols(line) >= 3
     /\ BaseSymbol(line) \in DOMAIN config_.pay_table) =>
        line_win = ClampedPayout(config_.pay_table[BaseSymbol(line)],
                                 CountConsecutiveSymbols(line))

\* the wild symbols on the line that have a payout row
WildRows(symbols, config) ==
    {symbols[i] : i \in 1 .. Len(symbols)} \cap DOMAIN config.pay_table

\* C20: a payline of at least 3 symbols, all of them in the machine's wild
\* set, pays a wild symbol's payout row for the run length (the whole line)
\* if the pay table has a row for a wild symbol of the line, and 0 otherwise.
C20_AllWildLinePaysWildRow ==
    (/\ line_win # NotEvaluated
     /\ \A i \in 1 .. Len(line) : line[i] \in config_.wild_symbols) =>
        IF WildRows(line, config_) = {}
        THEN line_win = 0
        ELSE \E wild \in WildRows(line, config_) :
                 line_win = ClampedPayout(config_.pay_table[wild], Len(line))

(***************************************************************************)
(* EngineSpec: one run of main -> SimulationEngine::Run: Initialize,       *)
(* GenerateTasks, the execution of the tasks, SaveResults, the exit        *)
(* status.  A configuration file is "ok", "unparsable" (the YAML parser    *)
(* throws), for a machine "empty_reel" (it parses, one reel strip is       *)
(* empty), for a player "weights_missing" (it parses, the V1 model files   *)
(* are not there).                                                         *)
(***************************************************************************)
MaxMachineFiles == 2     \* machine configuration files of the run

MachineFileKinds == {"ok", "unparsable", "empty_reel"}

PlayerFileKinds == {"ok", "unparsable", "weights_missing"}

FileLists(kinds, n) == UNION {[1 .. k -> kinds] : k \in 0 .. n}

RunEnvironments ==
    [config_file_exists : BOOLEAN,
     simulation_config_loads : BOOLEAN,
     machine_files : FileLists(MachineFileKinds, MaxMachineFiles),
     player_files : FileLists(PlayerFileKinds, 1),
     sessions_per_pair : {0, 1},
     writer_opens : BOOLEAN,
     sink_fails : BOOLEAN]

\* ConfigManager::LoadMachineConfigs / LoadPlayerConfigs: false as soon as
\* one file does not parse, and when no configuration is left
LoadConfigs(files) ==
    /\ \A i \in 1 .. Len(files) : files[i] # "unparsable"
    /\ files # <<>>

\* SimulationEngine::ValidateConfiguration after RegisterFactories has
\* registered every loaded configuration: IsRegistered looks up what was
\* registered
ValidateConfiguration(machine_configs, player_configs) ==
    LET registered_machines == {i : i \in 1 .. Len(machine_configs)}
        registered_players == {i : i \in 1 .. Len(player_configs)}
    IN /\ machine_configs # <<>>
       /\ player_configs # <<>>
       /\ \A i \in 1 .. Len(machine_configs) : i \in registered_machines
       /\ \A i \in 1 .. Len(player_configs) : i \in registered_players

\* SimulationEngine::Initialize: its return value
InitializeOk(env) ==
    /\ env.simulation_config_loads
    /\ LoadConfigs(env.machine_files)
    /\ LoadConfigs(env.player_files)
    /\ env.writer_opens
    /\ ValidateConfiguration(env.machine_files, env.player_files)

\* GenerateTasks: machines x players x sessions_per_pair, in that order
GenerateTasks(machine_configs, player_configs, sessions_per_pair) ==
    LET P == Len(player_configs)
        S == sessions_per_pair
    IN [i \in 1 .. (Len(machine_configs) * P * S) |->
           [machine |-> machine_configs[((i - 1) \div (P * S)) + 1],
            player |-> player_configs[(((i - 1) \div S) % P) + 1]]]

\* MachineFactory::CreateMachine / PlayerFactory::CreatePlayer return an
\* instance: the constructors of SlotMachine (Reel::Reel) and of V1Player
\* (V1ModelLoader) do not throw
FactoriesProduce(task) == task.machine = "ok" /\ task.player = "ok"

EngineState(pc, initialized, tasks, next, completed_tasks, failed_tasks, saved,
            rows_written, exit_status) ==
    [pc |-> pc, initialized |-> initialized, tasks |-> tasks, next |-> next,
     completed_tasks |-> completed_tasks, failed_tasks |-> failed_tasks,
     saved |-> saved, rows_written |-> rows_written, exit_status |-> exit_status]

EngineInit ==
    /\ PoolInit
    /\ LargestLimits
    /\ config_ = LosingMachine
    /\ MachineIdle
    /\ SessionIdle
    /\ PlayerIdle
    /\ run_env \in RunEnvironments
    /\ engine = EngineState("main", FALSE, <<>>, 1, 0, 0, FALSE, 0, -1)

\* main up to engine.Run: the configuration file must exist
Main ==
    /\ engine.pc = "main"
    /\ engine' = IF run_env.config_file_exists
                 THEN [engine EXCEPT !.pc = "initialize"]
                 ELSE [engine EXCEPT !.pc = "exited", !.exit_status = 1]
    /\ UNCHANGED <<run_env, poolVars, machVars, sessVars, playerVars, instVars,
                   downVars, simVars, modelVars, nestVars, writerVars, logVars,
                   replayVars>>

\* Run: Initialize, and the return of false through main when it fails
Initialize ==
    /\ engine.pc = "initialize"
    /\ engine' = IF InitializeOk(run_env)
                 THEN [engine EXCEPT !.pc = "generate", !.initialized = TRUE]
                 ELSE [engine EXCEPT !.pc = "exited", !.exit_status = 1]
    /\ UNCHANGED <<run_env, poolVars, machVars, sessVars, playerVars, instVars,
                   downVars, simVars, modelVars, nestVars, writerVars, logVars,
                   replayVars>>

\* Run: GenerateTasks and the test tasks.empty()
RunGenerateTasks ==
    /\ engine.pc = "generate"
    /\ LET tasks == GenerateTasks(run_env.machine_files, run_env.player_files,
                                  run_env.sessions_per_pair)
       IN engine' = IF tasks = <<>>
                    THEN [engine EXCEPT !.pc = "exited", !.exit_status = 1]
                    ELSE [engine EXCEPT !.pc = "execute", !.tasks = tasks]
    /\ UNCHANGED <<run_env, poolVars, machVars, sessVars, playerVars, instVars,
                   downVars, simVars, modelVars, nestVars, writerVars, logVars,
                   replayVars>>

\* the execution of one submitted task: GetInstances, the null check of
\* ExecuteSession, the session; a session whose instances exist completes or
\* fails (an exception of the session or of the callback)
ExecuteTask ==
    /\ engine.pc = "execute"
    /\ engine.next <= Len(engine.tasks)
    /\ \E sessionOk \in BOOLEAN :
         LET ok == FactoriesProduce(engine.tasks[engine.next]) /\ sessionOk
         IN engine' = [engine EXCEPT
                          !.next = @ + 1,
                          !.completed_tasks = IF ok THEN @ + 1 ELSE @,
                          !.failed_tasks = IF ok THEN @ ELSE @ + 1]
    /\ UNCHANGED <<run_env, poolVars, machVars, sessVars, playerVars, instVars,
                   downVars, simVars, modelVars, nestVars, writerVars, logVars,
                   replayVars>>

\* ExecuteSimulation after the tasks: SaveResults (WriteSessionStats writes
\* the rows of the successful tasks; a stream in error state takes none and
\* raises nothing), then failed_tasks == 0, Run's return and main's status
SaveResults ==
    /\ engine.pc = "execute"
    /\ engine.next > Len(engine.tasks)
    /\ \E saveThrows \in BOOLEAN :
         LET success == ~saveThrows /\ engine.failed_tasks = 0
         IN engine' = [engine EXCEPT
                          !.pc = "exited",
                          !.saved = ~saveThrows,
                          !.rows_written = IF saveThrows \/ run_env.sink_fails
                                           THEN 0 ELSE engine.completed_tasks,
                          !.exit_status = IF success THEN 0 ELSE 1]
    /\ UNCHANGED <<run_env, poolVars, machVars, sessVars, playerVars, instVars,
                   downVars, simVars, modelVars, nestVars, writerVars, logVars,
                   replayVars>>

EngineNext ==
    \/ Main
    \/ Initialize
    \/ RunGenerateTasks
    \/ ExecuteTask
    \/ SaveResults

EngineSpec == EngineInit /\ [][EngineNext]_vars

\* the process has exited
Exited == engine.pc = "exited"

\* every row of a successful task is in the session-stats file
ResultsSaved == engine.saved /\ engine.rows_written = engine.completed_tasks

\* C27: the process exits with status 0 exactly when initialization
\* succeeded, the results were saved and no task failed, and with status 1
\* otherwise.
C27_ExitStatusReportsTheRun ==
    Exited =>
        /\ engine.exit_status \in {0, 1}
        /\ engine.exit_status = 0 <=>
              (engine.initialized /\ ResultsSaved /\ engine.failed_tasks = 0)

\* a configuration does not load
LoadFailure ==
    \/ ~run_env.config_file_exists
    \/ ~run_env.simulation_config_loads
    \/ ~LoadConfigs(run_env.machine_files)
    \/ ~LoadConfigs(run_env.player_files)

\* the factories cannot produce an instance for a loaded configuration
FactoryMiss ==
    \/ \E i \in 1 .. Len(run_env.machine_files) : run_env.machine_files[i] = "empty_reel"
    \/ \E i \in 1 .. Len(run_env.player_files) : run_env.player_files[i] = "weights_missing"

\* C28: a configuration load failure or a factory miss is fatal before
\* execution begins: the run fails without any session task having been
\* submitted, it does not surface as failed sessions inside the workers.
C28_LoadFailureOrFactoryMissFatal ==
    (Exited /\ (LoadFailure \/ FactoryMiss)) =>
        /\ engine.exit_status = 1
        /\ engine.tasks = <<>>
        /\ engine.failed_tasks = 0

\* C29: a machine configuration with an empty reel strip is rejected at load:
\* loading fails and no session task for that machine is generated or run.
C29_EmptyReelRejectedAtLoad ==
    (\E i \in 1 .. Len(run_env.machine_files) : run_env.machine_files[i] = "empty_reel") =>
        /\ ~engine.initialized
        /\ \A k \in 1 .. Len(engine.tasks) : engine.tasks[k].machine # "empty_reel"

\* C30: an I/O failure of the sink while the session rows are written is
\* fatal: the run is reported as failed, the rows are not dropped with the
\* run reported as successful.
C30_SinkFailureIsFatal ==
    (Exited /\ run_env.sink_fails /\ engine.rows_written < engine.completed_tasks) =>
        engine.exit_status = 1

(***************************************************************************)
(* The reports of the DataWriter.  SimulationEngine::SaveResults collects  *)
(* the session records of the successful tasks in all_sessions and hands   *)
(* them to GenerateSummaryReport, which writes reports/player_report.csv   *)
(* through GeneratePlayerReport.  Of a SessionStats record the model       *)
(* keeps player_id, total_profit and max_win; of a report row the columns  *)
(* session_count, total_profit, max_win and min_profit.                    *)
(***************************************************************************)
MaxRecords == 3      \* session records one run collects

ReportPlayers == {"p1", "p2"}
ReportProfits == {-2, 1, 3}
ReportWins == {0, 2}

ReportStats(player_id, total_profit, max_win) ==
    [player_id |-> player_id, total_profit |-> total_profit, max_win |-> max_win]

\* player_groups[player_id]: the records of one player, in input order
PlayerGroup(session_stats, player_id) ==
    SelectSeq(session_stats, LAMBDA s : s.player_id = player_id)

\* the for loop over the sessions of one group, from the row the
\* declarations give: total_profit = 0, max_win = 0, min_profit = 0
RECURSIVE PlayerRow(_, _)
PlayerRow(row, sessions) ==
    IF sessions = <<>>
    THEN row
    ELSE PlayerRow([session_count |-> row.session_count + 1,
                    total_profit |-> row.total_profit + Head(sessions).total_profit,
                    max_win |-> Max(row.max_win, Head(sessions).max_win),
                    min_profit |-> Min(row.min_profit, Head(sessions).total_profit)],
                   Tail(sessions))

EmptyRow == [session_count |-> 0, total_profit |-> 0, max_win |-> 0, min_profit |-> 0]

\* the rows GeneratePlayerReport writes: one per key of player_groups
PlayerReport(session_stats) ==
    [player_id \in {session_stats[i].player_id : i \in 1 .. Len(session_stats)} |->
        PlayerRow(EmptyRow, PlayerGroup(session_stats, player_id))]

\* SaveResults: one more session record of a successful task
CollectSession ==
    /\ DOMAIN player_report = {}
    /\ Len(all_sessions) < MaxRecords
    /\ \E player_id \in ReportPlayers, total_profit \in ReportProfits,
          max_win \in ReportWins :
           all_sessions' =
               Append(all_sessions, ReportStats(player_id, total_profit, max_win))
    /\ UNCHANGED <<player_report, writer, publisher>>
    /\ UNCHANGED <<poolVars, machVars, sessVars, playerVars, instVars, downVars,
                   simVars, modelVars, engineVars, nestVars, logVars,
                   replayVars>>

\* DataWriter::GenerateSummaryReport with generate_reports set: nothing for
\* an empty input, else GeneratePlayerReport
GenerateSummaryReport ==
    /\ DOMAIN player_report = {}
    /\ all_sessions # <<>>
    /\ player_report' = PlayerReport(all_sessions)
    /\ UNCHANGED <<all_sessions, writer, publisher>>
    /\ UNCHANGED <<poolVars, machVars, sessVars, playerVars, instVars, downVars,
                   simVars, modelVars, engineVars, nestVars, logVars,
                   replayVars>>

ReportInit ==
    /\ PoolInit
    /\ EngineIdle
    /\ LargestLimits
    /\ config_ = NoMachine
    /\ MachineIdle
    /\ SessionIdle
    /\ PlayerIdle

ReportNext == CollectSession \/ GenerateSummaryReport

ReportSpec == ReportInit /\ [][ReportNext]_vars

\* the smallest total_profit among the records of one player
WorstProfit(session_stats, player_id) ==
    LET profits == {session_stats[i].total_profit :
                       i \in {j \in 1 .. Len(session_stats) :
                                 session_stats[j].player_id = player_id}}
    IN  CHOOSE x \in profits : \A y \in profits : x <= y

\* C37: in the player report the min_profit column of every player id is the
\* minimum total_profit over that player's session records, also when every
\* session of the player has a positive profit
C37_MinProfitIsWorstProfit ==
    \A player_id \in DOMAIN player_report :
        player_report[player_id].min_profit = WorstProfit(all_sessions, player_id)

(***************************************************************************)
(* Logger.  One thread (main) calls Initialize, Log and Shutdown.  mutex_  *)
(* is a std::mutex: "free" or the name of its owner.  LogLevel is 0        *)
(* (DEBUG) .. 3 (ERROR).  console_lines and file_lines count the lines     *)
(* written.  Initialize and Shutdown call Info, that is Log, while their   *)
(* lock_guard holds mutex_; Log's own lock_guard then locks a std::mutex   *)
(* its thread already owns, which the language leaves undefined: the call  *)
(* waits forever, or lock throws std::system_error                         *)
(* (resource_deadlock_would_occur), or it goes through as if recursive.    *)
(***************************************************************************)
MaxLogLines == 2     \* lines written to one stream

LogLevels == 0 .. 3

RelockOutcomes == {"blocks", "throws", "proceeds"}

\* the body of Log once it holds the lock: WriteToConsole and WriteToFile
LogWrite(l, level) ==
    [l EXCEPT
       !.console_lines = IF l.enable_console_ /\ level >= l.console_level_
                         THEN Min(@ + 1, MaxLogLines) ELSE @,
       !.file_lines = IF l.enable_file_ /\ level >= l.file_level_ /\ l.file_open
                      THEN Min(@ + 1, MaxLogLines) ELSE @]

\* Logger::Initialize up to its call of Info, or to its return when it makes
\* none: the lock, the four settings, the directory and the stream
LoggerInitialize ==
    /\ logger.pc = "constructed"
    /\ logger.mutex_ = "free"
    /\ \E console_level \in LogLevels, file_level \in LogLevels,
          enable_console \in BOOLEAN, enable_file \in BOOLEAN,
          path_empty \in BOOLEAN, openable \in BOOLEAN :
         LET set == [logger EXCEPT !.console_level_ = console_level,
                                   !.file_level_ = file_level,
                                   !.enable_console_ = enable_console,
                                   !.enable_file_ = enable_file]
         IN logger' =
              IF enable_file /\ ~path_empty
              THEN IF openable
                   THEN [set EXCEPT !.file_open = TRUE, !.mutex_ = "main",
                                    !.pc = "initialize_info"]
                   ELSE [set EXCEPT !.enable_file_ = FALSE, !.pc = "initialized"]
              ELSE [set EXCEPT !.pc = "initialized"]
    /\ UNCHANGED <<poolVars, machVars, sessVars, playerVars, instVars, downVars,
                   simVars, modelVars, engineVars, nestVars, writerVars,
                   replayVars>>

\* Info("Logger initialized", "Logger") inside Initialize: Log locks mutex_
\* while the lock_guard of Initialize holds it
InitializeInfo ==
    /\ logger.pc = "initialize_info"
    /\ ~logger.waiting
    /\ \E outcome \in RelockOutcomes :
         logger' =
           CASE outcome = "blocks" -> [logger EXCEPT !.waiting = TRUE]
             [] outcome = "throws" ->
                  [logger EXCEPT !.raised = TRUE, !.mutex_ = "free",
                                 !.pc = "terminated"]
             [] outcome = "proceeds" ->
                  [LogWrite(logger, 1) EXCEPT !.mutex_ = "free",
                                              !.pc = "initialized"]
    /\ UNCHANGED <<poolVars, machVars, sessVars, playerVars, instVars, downVars,
                   simVars, modelVars, engineVars, nestVars, writerVars,
                   replayVars>>

\* Logger::Log called by main outside Initialize and Shutdown
Log ==
    /\ logger.pc \in {"constructed", "initialized", "shut"}
    /\ logger.mutex_ = "free"
    /\ \E level \in LogLevels : logger' = LogWrite(logger, level)
    /\ UNCHANGED <<poolVars, machVars, sessVars, playerVars, instVars, downVars,
                   simVars, modelVars, engineVars, nestVars, writerVars,
                   replayVars>>

\* Logger::Shutdown (also ~Logger) up to its call of Info, or to its return
LoggerShutdown ==
    /\ logger.pc \in {"constructed", "initialized"}
    /\ logger.mutex_ = "free"
    /\ logger' = IF logger.file_open
                 THEN [logger EXCEPT !.mutex_ = "main", !.pc = "shutdown_info"]
                 ELSE [logger EXCEPT !.pc = "shut"]
    /\ UNCHANGED <<poolVars, machVars, sessVars, playerVars, instVars, downVars,
                   simVars, modelVars, engineVars, nestVars, writerVars,
                   replayVars>>

\* Info("Logger shutting down", "Logger") inside Shutdown, then close and reset
ShutdownInfo ==
    /\ logger.pc = "shutdown_info"
    /\ ~logger.waiting
    /\ \E outcome \in RelockOutcomes :
         logger' =
           CASE outcome = "blocks" -> [logger EXCEPT !.waiting = TRUE]
             [] outcome = "throws" ->
                  [logger EXCEPT !.raised = TRUE, !.mutex_ = "free",
                                 !.pc = "terminated"]
             [] outcome = "proceeds" ->
                  [LogWrite(logger, 1) EXCEPT !.file_open = FALSE,
                                              !.mutex_ = "free", !.pc = "shut"]
    /\ UNCHANGED <<poolVars, machVars, sessVars, playerVars, instVars, downVars,
                   simVars, modelVars, engineVars, nestVars, writerVars,
                   replayVars>>

LoggerInit ==
    /\ PoolInit
    /\ EngineIdle
    /\ LargestLimits
    /\ config_ = NoMachine
    /\ MachineIdle
    /\ SessionIdle
    /\ PlayerIdle

LoggerNext ==
    LoggerInitialize \/ InitializeInfo \/ Log \/ LoggerShutdown \/ ShutdownInfo

LoggerSpec == LoggerInit /\ [][LoggerNext]_vars

\* C40: neither Initialize (file logging enabled, log file opened) nor
\* Shutdown (file open) blocks forever by logging through Log: the calling
\* thread never waits in Log for the logger mutex it holds itself
C40_NoSelfDeadlock ==
    ~(logger.waiting /\ logger.mutex_ = "main")

(***************************************************************************)
(* DataWriter::WriteRawSpins, called by the workers with the spins of one  *)
(* session.  The call returns at once when raw spins are not recorded;     *)
(* else it takes write_mutex_, writes one line per spin to raw_spins.csv,  *)
(* flushes and returns.  spins_buffer_ is a member no function touches.    *)
(* The output section of the configuration has one size setting,           *)
(* batch_write_size.  write_mutex_ is the index of its owner, -1 when it   *)
(* is free.                                                                *)
(***************************************************************************)
MaxBatch == 2        \* largest batch_write_size
MaxFileLines == 6    \* lines of raw_spins.csv one run writes

\* DataWriter::DataWriter(config): the output settings as the configuration
\* file gives them
DataWriterConstruct ==
    /\ ~writer.constructed
    /\ \E record_raw_spins \in BOOLEAN, batch_write_size \in 1 .. MaxBatch :
           writer' = NewDataWriter(record_raw_spins, batch_write_size)
    /\ UNCHANGED <<all_sessions, player_report, publisher>>
    /\ UNCHANGED <<poolVars, machVars, sessVars, playerVars, instVars, downVars,
                   simVars, modelVars, engineVars, nestVars, logVars,
                   replayVars>>

\* a worker enters WriteRawSpins(spins, session_id) with n spins
WriteRawSpinsCall(w) ==
    /\ writer.constructed
    /\ publisher[w].pc = "idle"
    /\ \E n \in 1 .. MaxSpins :
         /\ writer.raw_spins_lines + n <= MaxFileLines
         /\ publisher' = [publisher EXCEPT ![w] =
                IF ~writer.record_raw_spins \/ ~writer.raw_spins_open
                THEN NoPublisher
                ELSE [pc |-> "lock", spins |-> n]]
    /\ UNCHANGED <<all_sessions, player_report, writer>>
    /\ UNCHANGED <<poolVars, machVars, sessVars, playerVars, instVars, downVars,
                   simVars, modelVars, engineVars, nestVars, logVars,
                   replayVars>>

\* std::lock_guard<std::mutex> lock(write_mutex_)
WriteRawSpinsLock(w) ==
    /\ publisher[w].pc = "lock"
    /\ writer.write_mutex_ = -1
    /\ writer' = [writer EXCEPT !.write_mutex_ = w]
    /\ publisher' = [publisher EXCEPT ![w].pc = "write"]
    /\ UNCHANGED <<all_sessions, player_report>>
    /\ UNCHANGED <<poolVars, machVars, sessVars, playerVars, instVars, downVars,
                   simVars, modelVars, engineVars, nestVars, logVars,
                   replayVars>>

\* the for loop, one line per spin, raw_spins_file_->flush() and the return,
\* which releases write_mutex_
WriteRawSpinsWrite(w) ==
    /\ publisher[w].pc = "write"
    /\ writer' = [writer EXCEPT !.raw_spins_lines = @ + publisher[w].spins,
                                !.write_mutex_ = -1]
    /\ publisher' = [publisher EXCEPT ![w] = NoPublisher]
    /\ UNCHANGED <<all_sessions, player_report>>
    /\ UNCHANGED <<poolVars, machVars, sessVars, playerVars, instVars, downVars,
                   simVars, modelVars, engineVars, nestVars, logVars,
                   replayVars>>

DataWriterInit ==
    /\ PoolInit
    /\ EngineIdle
    /\ LargestLimits
    /\ config_ = NoMachine
    /\ MachineIdle
    /\ SessionIdle
    /\ PlayerIdle

DataWriterNext ==
    \/ DataWriterConstruct
    \/ \E w \in Workers :
        \/ WriteRawSpinsCall(w)
        \/ WriteRawSpinsLock(w)
        \/ WriteRawSpinsWrite(w)

DataWriterSpec == DataWriterInit /\ [][DataWriterNext]_vars

\* worker w passes from waiting to writing: its push goes through
PushGoesThrough(w) == publisher[w].pc = "lock" /\ publisher'[w].pc = "write"

\* C32: the buffer of raw spin records never holds more than the cap, and a
\* push that would exceed the cap does not go through: the publishing worker
\* is held back until the buffer has room for all its records
C32_OversizePushHeldBack ==
    [][/\ Len(writer'.spins_buffer_) <= writer.batch_write_size
       /\ \A w \in Workers :
              PushGoesThrough(w) =>
                  Len(writer.spins_buffer_) + publisher[w].spins
                      <= writer.batch_write_size]_vars

(***************************************************************************)
(* One session, run twice on one thread with the same seed.  A generator   *)
(* (std::mt19937_64) is a deterministic function of its state: a draw      *)
(* returns the state and steps it.  std::random_device and the clocks      *)
(* return whatever the platform gives.  The seed reaches the machine       *)
(* through SlotMachine::SetSeed, the only seeding entry of the objects a   *)
(* session uses; BasePlayer seeds rng_ from std::random_device and has no  *)
(* such entry.  A row of the output is the bet, the grid (the draw it is   *)
(* generated from) and the win; the record carries the totals and          *)
(* session_duration.                                                       *)
(***************************************************************************)
MaxClock == 1        \* largest reading of a clock, in seconds
ReplaySpins == 2     \* spins of the session

RngStates == 0 .. 3
Seeds == {0, 1}

\* the next state of a generator
NextRng(state) == (state + 1) % 4

\* BasePlayer::GetRandomBet on bet options {1, 2}, both affordable:
\* affordable_bets[dist(rng_)]
ReplayBet(player_rng) == 1 + (player_rng % 2)

\* what the machine pays for a bet on the grid drawn
ReplayWin(machine_rng, bet_amount) == IF machine_rng = 0 THEN 2 * bet_amount ELSE 0

\* the machine and the player of a run are built and the machine is seeded
ReplayStart ==
    /\ replay.pc = "idle"
    /\ replay.run <= 2
    /\ \E seed \in Seeds, device \in RngStates :
         /\ replay.run = 2 => seed = replay.seed
         /\ replay' = [replay EXCEPT !.pc = "spin", !.seed = seed,
                                     !.machine_rng = seed,
                                     !.player_rng = device]
    /\ UNCHANGED <<poolVars, machVars, sessVars, playerVars, instVars, downVars,
                   simVars, modelVars, engineVars, nestVars, writerVars, logVars>>

\* one iteration of RunSession: the player's bet, the machine's spin
ReplaySpin ==
    /\ replay.pc = "spin"
    /\ Len(replay.output[replay.run].spins) < ReplaySpins
    /\ LET bet_amount == ReplayBet(replay.player_rng)
           row == [bet_amount |-> bet_amount, grid |-> replay.machine_rng,
                   win_amount |-> ReplayWin(replay.machine_rng, bet_amount)]
       IN replay' = [replay EXCEPT !.player_rng = NextRng(@),
                                   !.machine_rng = NextRng(@),
                                   !.output[replay.run].spins = Append(@, row)]
    /\ UNCHANGED <<poolVars, machVars, sessVars, playerVars, instVars, downVars,
                   simVars, modelVars, engineVars, nestVars, writerVars, logVars>>

RECURSIVE SumField(_, _)
SumField(rows, field) ==
    IF rows = <<>> THEN 0 ELSE rows[1][field] + SumField(Tail(rows), field)

\* the end of RunSession: the totals and the wall-clock duration
ReplayFinish ==
    /\ replay.pc = "spin"
    /\ Len(replay.output[replay.run].spins) = ReplaySpins
    /\ \E session_duration \in 0 .. MaxClock :
         LET rows == replay.output[replay.run].spins
         IN replay' = [replay EXCEPT
                !.pc = "idle", !.run = @ + 1,
                !.output[replay.run].record =
                    [total_spins |-> Len(rows),
                     total_bet |-> SumField(rows, "bet_amount"),
                     total_win |-> SumField(rows, "win_amount"),
                     session_duration |-> session_duration]]
    /\ UNCHANGED <<poolVars, machVars, sessVars, playerVars, instVars, downVars,
                   simVars, modelVars, engineVars, nestVars, writerVars, logVars>>

ReplayInit ==
    /\ PoolInit
    /\ EngineIdle
    /\ LargestLimits
    /\ config_ = NoMachine
    /\ MachineIdle
    /\ SessionIdle
    /\ PlayerIdle

ReplayNext == ReplayStart \/ ReplaySpin \/ ReplayFinish

ReplaySpec == ReplayInit /\ [][ReplayNext]_vars

\* C31: two runs of one session on one thread with the same seed put out the
\* same bets, grids and wins and the same session record
C31_SameSeedSameOutput ==
    replay.run = 3 => replay.output[1] = replay.output[2]

====
